---- MODULE Spec2Model ----
\* Dungeondraft asset pack tools: the archive codec (AssetPack::from_read,
\* AssetPack::to_write), the directory entry codec (FileMetaData), the tag
\* cleaner (AssetPack::clean_tags), the rendering of the tags (Display for
\* Tags) and the loop of main (handle_pack, write_pack), modelled at the
\* level of the bytes of the archive.  A byte is a number 0..255; a string is
\* the sequence of its bytes.
EXTENDS Integers, Sequences, FiniteSets, TLC

VARIABLES
    stream,     \* the bytes of the archive file last read from or written to
    pack,       \* the AssetPack value held by the caller: Some(p) or None
    outcome,    \* result of the last operation: "none", "ok", "err" or "crash"
    last,       \* the operation that ran last, or how the state was set up
    before,     \* the AssetPack the last clean_tags or to_write started from
    log,        \* what the last from_read or Display of the tags sent to the log
    entry,      \* the result of the last FileMetaData::from_read, or None
    given,      \* what the stream of the initial state was built from
    cleans,     \* how many clean_tags calls ran in a row
    writes,     \* how many to_write calls ran
    output_dir, \* the output directory of the tool: file name -> bytes
    todo        \* the pack files the glob of main has still to yield

vars == <<stream, pack, outcome, last, before, log, entry, given, cleans, writes,
          output_dir, todo>>

\* ------------------------------------------------------------------ bytes
Ascii ==
    "\"" :> 34 @@ "," :> 44 @@ "." :> 46 @@ "/" :> 47 @@ "0" :> 48 @@ "1" :> 49
    @@ "2" :> 50 @@ "3" :> 51 @@ "4" :> 52 @@ "5" :> 53 @@ "6" :> 54 @@ "7" :> 55
    @@ "8" :> 56 @@ "9" :> 57 @@ ":" :> 58 @@ "[" :> 91 @@ "]" :> 93 @@ "_" :> 95
    @@ "a" :> 97 @@ "b" :> 98 @@ "c" :> 99 @@ "d" :> 100 @@ "e" :> 101
    @@ "f" :> 102 @@ "g" :> 103 @@ "h" :> 104 @@ "i" :> 105 @@ "j" :> 106
    @@ "k" :> 107 @@ "l" :> 108 @@ "m" :> 109 @@ "n" :> 110 @@ "o" :> 111
    @@ "p" :> 112 @@ "q" :> 113 @@ "r" :> 114 @@ "s" :> 115 @@ "t" :> 116
    @@ "u" :> 117 @@ "v" :> 118 @@ "w" :> 119 @@ "x" :> 120 @@ "y" :> 121
    @@ "z" :> 122 @@ "{" :> 123 @@ "}" :> 125

\* The bytes of the string whose characters are the elements of t.
Str(t) == [i \in 1..Len(t) |-> Ascii[t[i]]]

\* Local values: F applied to the value of v, which is computed once.
Bind(v, F(_)) == CHOOSE y \in {F(x) : x \in {v}} : TRUE
Bind2(v, w, F(_, _)) == CHOOSE y \in {F(x, z) : x \in {v}, z \in {w}} : TRUE
Bind3(u, v, w, F(_, _, _)) ==
    CHOOSE y \in {F(a, b, c) : a \in {u}, b \in {v}, c \in {w}} : TRUE

Slash == Ascii["/"]
Dot == Ascii["."]
Quote == Ascii["\""]

\* ---------------------------------------------------------- utils.rs
ASSET_PACK_MAGIC_FILE_HEADER == <<71, 68, 80, 67>>
I32 == 4
I64 == 8
GODOT_METADATA_RESERVED_SPACE == 16 * I32
MD5_BYTES == 16

\* ------------------------------------------------------ path_utils.rs
RESOURCE_PATH_PREFIX == Str(<<"r","e","s",":","/","/">>)
ASSET_PACK_PREFIX == Str(<<"p","a","c","k","s","/">>)
PACK_FILE_NAME == Str(<<"p","a","c","k",".","j","s","o","n">>)
TAGS_FILE_NAME ==
    Str(<<"d","a","t","a","/","d","e","f","a","u","l","t",".","d","u","n","g",
          "e","o","n","d","r","a","f","t","_","t","a","g","s">>)
OBJECT_FILES_PREFIX ==
    Str(<<"t","e","x","t","u","r","e","s","/","o","b","j","e","c","t","s","/">>)
JsonExtension == Str(<<"j","s","o","n">>)

\* ----------------------------------------------- str methods (Rust std)
Drop(s, n) == SubSeq(s, n + 1, Len(s))

\* str::starts_with
StartsWith(s, p) == Len(s) >= Len(p) /\ SubSeq(s, 1, Len(p)) = p

\* str::ends_with
EndsWith(s, p) == Len(s) >= Len(p) /\ SubSeq(s, Len(s) - Len(p) + 1, Len(s)) = p

\* str::trim_start_matches: removes the prefix p as long as s starts with it.
RECURSIVE trim_start_matches(_, _)
trim_start_matches(s0, p) ==
    Bind(s0, LAMBDA s :
        IF Len(p) > 0 /\ StartsWith(s, p)
        THEN trim_start_matches(Drop(s, Len(p)), p)
        ELSE s)

\* Index of the first byte c in s at or after position i; 0 when there is none.
Find(s, c, i) ==
    Bind({j \in i..Len(s) : s[j] = c}, LAMBDA hits :
        IF hits = {} THEN 0 ELSE CHOOSE j \in hits : \A k \in hits : j <= k)

\* Index of the last byte c in s at or before position i; 0 when there is none.
RFind(s, c, i) ==
    Bind({j \in 1..i : s[j] = c}, LAMBDA hits :
        IF hits = {} THEN 0 ELSE CHOOSE j \in hits : \A k \in hits : k <= j)

\* str::split_once(c).unwrap_or(("", s)): the part before the first c and the
\* part after it.
split_once_or_whole(s0, c) ==
    Bind(s0, LAMBDA s :
        Bind(Find(s, c, 1), LAMBDA i :
            IF i = 0 THEN <<<<>>, s>>
            ELSE <<SubSeq(s, 1, i - 1), Drop(s, i)>>))

\* -------------------------------------------- std::path::Path (Unix)
\* The pieces of s between '/' bytes.
RECURSIVE Segments(_)
Segments(s0) ==
    Bind(s0, LAMBDA s :
        Bind(Find(s, Slash, 1), LAMBDA i :
            IF i = 0 THEN <<s>>
            ELSE <<SubSeq(s, 1, i - 1)>> \o Segments(Drop(s, i))))

has_root(s) == Len(s) > 0 /\ s[1] = Slash

\* Path::components without the root: empty pieces are dropped, and so is "."
\* except as the first component of a path that has no root.
components(s) ==
    Bind(Segments(s), LAMBDA segs :
        LET keep(i) == /\ segs[i] # <<>>
                       /\ (segs[i] = <<Dot>> => (i = 1 /\ ~has_root(s)))
            F[i \in 0..Len(segs)] ==
                IF i = 0 THEN <<>>
                ELSE IF keep(i) THEN Append(F[i - 1], segs[i]) ELSE F[i - 1]
        IN F[Len(segs)])

IsNormal(c) == c # <<Dot>> /\ c # <<Dot, Dot>>

\* Path::file_name: the last component when it is a normal one; <<>> is None
\* (no component is empty).
file_name(s) ==
    Bind(components(s), LAMBDA cs :
        IF cs # <<>> /\ IsNormal(cs[Len(cs)]) THEN cs[Len(cs)] ELSE <<>>)

\* Path::extension: what follows the last '.' of the file name; None (<<>>
\* here, as in the unwrap_or of is_root_json_file) when the name has no '.'
\* or only a leading one.
extension(s) ==
    Bind(file_name(s), LAMBDA f :
        Bind(RFind(f, Dot, Len(f)), LAMBDA i :
            IF i <= 1 THEN <<>> ELSE Drop(f, i)))

\* Path::parent() == Some(Path::new("")): the path has no root and exactly
\* one component.
parent_is_empty(s) == ~has_root(s) /\ Len(components(s)) = 1

\* ------------------------------------------------------ path_utils.rs
is_root_json_file(path) == extension(path) = JsonExtension /\ parent_is_empty(path)

is_pack_file(path) == file_name(path) = PACK_FILE_NAME

is_tags_file(path) == EndsWith(path, TAGS_FILE_NAME)

is_objects_file(path) == StartsWith(path, OBJECT_FILES_PREFIX)

\* ------------------------------------------ byteorder, std::io::Cursor
Zeros(n) == [i \in 1..n |-> 0]

\* WriteBytesExt::write_i32::<LE>: the two's complement bytes of n, lowest first.
LE32(n) ==
    <<n % 256, (n \div 256) % 256, (n \div 65536) % 256, (n \div 16777216) % 256>>

\* WriteBytesExt::write_i64::<LE> of a value that fits 32 bits, sign-extended.
LE64(n) == LE32(n) \o [i \in 1..(I64 - I32) |-> IF n < 0 THEN 255 ELSE 0]

\* ReadBytesExt::read_i32::<LE> of four bytes.
I32Of(b) ==
    b[1] + 256 * b[2] + 65536 * b[3]
    + 16777216 * (IF b[4] >= 128 THEN b[4] - 256 ELSE b[4])

\* A length that does not fit the model's integers: 2^31 or more, which is
\* what a negative i32 or i64 becomes under `as usize`.
TooBig == -1

\* read_i32::<LE>()? as usize
UsizeOfI32(b) == IF b[4] >= 128 THEN TooBig ELSE I32Of(b)

\* read_i64::<LE>()? as usize
UsizeOfI64(b) ==
    IF SubSeq(b, I32 + 1, I64) = Zeros(I64 - I32)
    THEN UsizeOfI32(SubSeq(b, 1, I32))
    ELSE TooBig

\* The order of two u64 values given by their little-endian bytes: decided by
\* the most significant byte in which they differ.
RECURSIVE U64LessFrom(_, _, _)
U64LessFrom(a, b, i) ==
    IF i = 0 THEN FALSE
    ELSE IF a[i] # b[i] THEN a[i] < b[i]
    ELSE U64LessFrom(a, b, i - 1)

U64Less(a, b) == U64LessFrom(a, b, I64)

\* Read::read in the place of read_exact: the buffer of n zeros is filled as
\* far as the stream goes, and the short read is not noticed.
read_zero_filled(s, pos, n) ==
    [ok |-> TRUE,
     val |-> [i \in 1..n |-> IF pos + i <= Len(s) THEN s[pos + i] ELSE 0],
     next |-> pos + n]

\* Read::read_exact of n bytes at position pos (0-based) of the stream s.
read_exact(s, pos, n) ==
    IF pos + n <= Len(s)
    THEN [ok |-> TRUE, val |-> SubSeq(s, pos + 1, pos + n), next |-> pos + n]
    ELSE [ok |-> FALSE, val |-> <<>>, next |-> pos]

\* String::from_utf8 succeeds: the model's strings are ASCII, any other byte
\* is taken to be an invalid sequence.
valid_utf8(b) == \A i \in 1..Len(b) : b[i] < 128

\* ---------------------------------------------------- godot_version.rs
GodotVersion_size_in_bytes == I32 * 4

GodotVersion_to_write(v) ==
    LE32(v.version) \o LE32(v.major) \o LE32(v.minor) \o LE32(v.revision)

GodotVersion_from_read(s, pos) ==
    Bind(read_exact(s, pos, GodotVersion_size_in_bytes), LAMBDA r :
        IF ~r.ok THEN [st |-> "err", next |-> pos]
        ELSE [st |-> "ok", next |-> r.next,
              val |-> [version  |-> I32Of(SubSeq(r.val, 1, 4)),
                       major    |-> I32Of(SubSeq(r.val, 5, 8)),
                       minor    |-> I32Of(SubSeq(r.val, 9, 12)),
                       revision |-> I32Of(SubSeq(r.val, 13, 16))]])

\* --------------------------------------------------- file_meta_data.rs
\* struct FileMetaData; offset (a u64) is held as its 8 little-endian bytes.
FileMetaData_new(path, size) ==
    [path |-> path, offset |-> LE64(0), size |-> size, md5 |-> Zeros(MD5_BYTES)]

\* The path a directory entry is stored under becomes the path of the
\* FileMetaData: both prefixes trimmed, then the pack id segment split off.
normalize_path(raw) ==
    Bind(trim_start_matches(trim_start_matches(raw, RESOURCE_PATH_PREFIX),
                            ASSET_PACK_PREFIX),
         LAMBDA path_with_maybe_pack_id :
             split_once_or_whole(path_with_maybe_pack_id, Slash)[2])

\* FileMetaData::from_read at position pos: st is "ok", "err" (an Err is
\* returned) or "crash" (the allocation of a string of 2^31 bytes or more).
FileMetaData_from_read(s, pos) ==
    Bind(read_exact(s, pos, I32), LAMBDA len :
    IF ~len.ok THEN [st |-> "err", next |-> pos]
    ELSE IF UsizeOfI32(len.val) = TooBig THEN [st |-> "crash", next |-> pos]
    ELSE
    Bind(read_exact(s, len.next, UsizeOfI32(len.val)), LAMBDA str :
    IF ~str.ok \/ ~valid_utf8(str.val) THEN [st |-> "err", next |-> pos]
    ELSE
    Bind(read_exact(s, str.next, I64), LAMBDA offset :
    IF ~offset.ok THEN [st |-> "err", next |-> pos]
    ELSE
    Bind(read_exact(s, offset.next, I64), LAMBDA size :
    IF ~size.ok THEN [st |-> "err", next |-> pos]
    ELSE
    Bind(read_exact(s, size.next, MD5_BYTES), LAMBDA md5 :
    IF ~md5.ok THEN [st |-> "err", next |-> pos]
    ELSE [st |-> "ok", next |-> md5.next, stored |-> str.val,
          val |-> [path   |-> normalize_path(str.val),
                   offset |-> offset.val,
                   size   |-> UsizeOfI64(size.val),
                   md5    |-> md5.val]])))))

\* std::io::Write.  A sink is a Vec (kind "vec": write takes every byte
\* offered), a pipe or socket (kind "short": write takes at most cap bytes
\* of a call) or a slice (kind "slice": write takes what fits into the room
\* left, then nothing).  written is what the sink holds.
Min(a, b) == IF a < b THEN a ELSE b

\* Write::write: n is the Ok(n) returned.
write(sink, buf) ==
    Bind(IF sink.kind = "vec" THEN Len(buf)
         ELSE IF sink.kind = "short" THEN Min(Len(buf), sink.cap)
         ELSE Min(Len(buf), sink.room - Len(sink.written)),
         LAMBDA n : [n |-> n,
                     sink |-> [sink EXCEPT !.written = @ \o SubSeq(buf, 1, n)]])

\* Write::write_all: write is called on what is left of the buffer until
\* nothing is left; a call that takes nothing of a buffer is the error
\* WriteZero.
RECURSIVE write_all(_, _)
write_all(sink0, buf0) ==
    Bind2(sink0, buf0, LAMBDA sink, buf :
        IF buf = <<>> THEN [ok |-> TRUE, sink |-> sink]
        ELSE Bind(write(sink, buf), LAMBDA r :
                 IF r.n = 0 THEN [ok |-> FALSE, sink |-> r.sink]
                 ELSE write_all(r.sink, Drop(buf, r.n))))

\* FileMetaData::to_write into the sink given: the lengths, the offset and
\* the checksum go through write_all (write_i32, write_i64, write_all), the
\* path through one call of write whose Ok(n) is dropped.
FileMetaData_to_write_into(m, sink0) ==
    Bind(write_all(sink0, LE32(Len(m.path))), LAMBDA length :
    IF ~length.ok THEN [st |-> "err", sink |-> length.sink]
    ELSE
    Bind(write(length.sink, m.path), LAMBDA path :
    Bind(write_all(path.sink, m.offset), LAMBDA offset :
    IF ~offset.ok THEN [st |-> "err", sink |-> offset.sink]
    ELSE
    Bind(write_all(offset.sink, LE64(m.size)), LAMBDA size :
    IF ~size.ok THEN [st |-> "err", sink |-> size.sink]
    ELSE
    Bind(write_all(size.sink, Zeros(MD5_BYTES)), LAMBDA md5 :
    IF ~md5.ok THEN [st |-> "err", sink |-> md5.sink]
    ELSE [st |-> "ok", sink |-> md5.sink])))))

\* FileMetaData::to_write into a sink that takes every byte offered.
FileMetaData_to_write(m) ==
    LE32(Len(m.path)) \o m.path \o m.offset \o LE64(m.size) \o Zeros(MD5_BYTES)

calculate_binary_size(m) == I32 + Len(m.path) + I64 * 2 + MD5_BYTES

\* ------------------------------------------------- json5 (the crate)
\* A JSON value: t names its kind.  The text form is the compact one, with no
\* white space; strings hold no quote and no backslash, numbers are one digit.
JStr(s) == [t |-> "str", s |-> s]
JNum(n) == [t |-> "num", n |-> n]
JBool(b) == [t |-> "bool", b |-> b]
JArr(items) == [t |-> "arr", items |-> items]
JObj(members) == [t |-> "obj", members |-> members]
Member(key, val) == [key |-> key, val |-> val]

TrueText == Str(<<"t","r","u","e">>)
FalseText == Str(<<"f","a","l","s","e">>)

RECURSIVE json_text(_)
RECURSIVE JoinItems(_, _)
RECURSIVE JoinMembers(_, _)
JoinItems(items, i) ==
    IF i > Len(items) THEN <<>>
    ELSE (IF i > 1 THEN <<Ascii[","]>> ELSE <<>>)
         \o json_text(items[i]) \o JoinItems(items, i + 1)

JoinMembers(members, i) ==
    IF i > Len(members) THEN <<>>
    ELSE (IF i > 1 THEN <<Ascii[","]>> ELSE <<>>)
         \o <<Quote>> \o members[i].key \o <<Quote, Ascii[":"]>>
         \o json_text(members[i].val) \o JoinMembers(members, i + 1)

\* json5::to_string of a value.
json_text(v0) ==
    Bind(v0, LAMBDA v :
        CASE v.t = "str"  -> <<Quote>> \o v.s \o <<Quote>>
          [] v.t = "num"  -> <<Ascii["0"] + v.n>>
          [] v.t = "bool" -> IF v.b THEN TrueText ELSE FalseText
          [] v.t = "arr"  -> <<Ascii["["]>> \o JoinItems(v.items, 1) \o <<Ascii["]"]>>
          [] v.t = "obj"  -> <<Ascii["{"]>> \o JoinMembers(v.members, 1) \o <<Ascii["}"]>>)

ParseFail == [ok |-> FALSE, next |-> 0]
ParseOk(v, next) == [ok |-> TRUE, val |-> v, next |-> next]
At(t, i, c) == i <= Len(t) /\ t[i] = c

RECURSIVE parse_value(_, _)
RECURSIVE parse_items(_, _, _)
RECURSIVE parse_members(_, _, _)
parse_items(t, i, acc) ==
    Bind(parse_value(t, i), LAMBDA r :
        IF ~r.ok THEN ParseFail
        ELSE IF At(t, r.next, Ascii[","])
        THEN parse_items(t, r.next + 1, Append(acc, r.val))
        ELSE IF At(t, r.next, Ascii["]"])
        THEN ParseOk(JArr(Append(acc, r.val)), r.next + 1)
        ELSE ParseFail)

parse_members(t, i, acc) ==
    Bind(parse_value(t, i), LAMBDA k :
        IF ~k.ok THEN ParseFail
        ELSE IF k.val.t # "str" \/ ~At(t, k.next, Ascii[":"]) THEN ParseFail
        ELSE
        Bind(parse_value(t, k.next + 1), LAMBDA r :
            IF ~r.ok THEN ParseFail
            ELSE IF At(t, r.next, Ascii[","])
            THEN parse_members(t, r.next + 1, Append(acc, Member(k.val.s, r.val)))
            ELSE IF At(t, r.next, Ascii["}"])
            THEN ParseOk(JObj(Append(acc, Member(k.val.s, r.val))), r.next + 1)
            ELSE ParseFail))

parse_value(t, i0) ==
    Bind(i0, LAMBDA i :
    IF i > Len(t) THEN ParseFail
    ELSE IF t[i] = Quote THEN
        Bind(Find(t, Quote, i + 1), LAMBDA j :
            IF j = 0 THEN ParseFail ELSE ParseOk(JStr(SubSeq(t, i + 1, j - 1)), j + 1))
    ELSE IF t[i] \in Ascii["0"]..Ascii["9"] THEN ParseOk(JNum(t[i] - Ascii["0"]), i + 1)
    ELSE IF i + Len(TrueText) - 1 <= Len(t)
            /\ SubSeq(t, i, i + Len(TrueText) - 1) = TrueText
    THEN ParseOk(JBool(TRUE), i + Len(TrueText))
    ELSE IF i + Len(FalseText) - 1 <= Len(t)
            /\ SubSeq(t, i, i + Len(FalseText) - 1) = FalseText
    THEN ParseOk(JBool(FALSE), i + Len(FalseText))
    ELSE IF t[i] = Ascii["["] THEN
        IF At(t, i + 1, Ascii["]"]) THEN ParseOk(JArr(<<>>), i + 2)
        ELSE parse_items(t, i + 1, <<>>)
    ELSE IF t[i] = Ascii["{"] THEN
        IF At(t, i + 1, Ascii["}"]) THEN ParseOk(JObj(<<>>), i + 2)
        ELSE parse_members(t, i + 1, <<>>)
    ELSE ParseFail)

\* The value a whole text stands for: ok is FALSE when the text is not one
\* JSON value.
json_parse(text0) ==
    Bind(text0, LAMBDA text :
        Bind(parse_value(text, 1), LAMBDA r :
            IF r.ok /\ r.next = Len(text) + 1 THEN r ELSE ParseFail))

\* ------------------------------------ iteration order of hash containers
\* Byte-wise order of two strings.
RECURSIVE LexLess(_, _)
LexLess(a, b) ==
    IF b = <<>> THEN FALSE
    ELSE IF a = <<>> THEN TRUE
    ELSE IF a[1] # b[1] THEN a[1] < b[1]
    ELSE LexLess(Tail(a), Tail(b))

RECURSIVE Sorted(_)
Sorted(S0) ==
    Bind(S0, LAMBDA S :
        IF S = {} THEN <<>>
        ELSE Bind(CHOOSE x \in S : \A y \in S \ {x} : LexLess(x, y),
                  LAMBDA m : <<m>> \o Sorted(S \ {m})))

Reverse(q) == [i \in 1..Len(q) |-> q[Len(q) + 1 - i]]

\* The order in which a HashSet or the keys of a HashMap are visited is not
\* specified; the model has two of the possible orders.
IterOrder(S, rev) == Bind(Sorted(S), LAMBDA q : IF rev THEN Reverse(q) ELSE q)

\* All the orders in which the keys S can be visited.
Orders(S) ==
    {q \in [1..Cardinality(S) -> S] : \A i, j \in 1..Cardinality(S) : i # j => q[i] # q[j]}

\* ------------------------------------- pack_meta.rs, color_overrides.rs
None == [some |-> FALSE]
Some(x) == [some |-> TRUE, val |-> x]

NameKey == Str(<<"n","a","m","e">>)
IdKey == Str(<<"i","d">>)
VersionKey == Str(<<"v","e","r","s","i","o","n">>)
AuthorKey == Str(<<"a","u","t","h","o","r">>)
OverridesKey ==
    Str(<<"c","u","s","t","o","m","_","c","o","l","o","r","_","o","v","e","r","r",
          "i","d","e","s">>)
EnabledKey == Str(<<"e","n","a","b","l","e","d">>)
MinRednessKey == Str(<<"m","i","n","_","r","e","d","n","e","s","s">>)
MinSaturationKey == Str(<<"m","i","n","_","s","a","t","u","r","a","t","i","o","n">>)
RedToleranceKey == Str(<<"r","e","d","_","t","o","l","e","r","a","n","c","e">>)
TagsKey == Str(<<"t","a","g","s">>)
SetsKey == Str(<<"s","e","t","s">>)

\* The members of a JSON object that carry the key.
Having(members, key) == {i \in 1..Len(members) : members[i].key = key}

\* A field of a derived Deserialize: present once, with a value of kind t.
FieldOk(members, key, t) ==
    /\ Cardinality(Having(members, key)) = 1
    /\ members[CHOOSE i \in Having(members, key) : TRUE].val.t = t

Field(members, key) == members[CHOOSE i \in Having(members, key) : TRUE].val

\* #[derive(Serialize)] for ColorOverrides
ColorOverrides_serialize(c) ==
    JObj(<<Member(EnabledKey, JBool(c.enabled)),
           Member(MinRednessKey, JNum(c.min_redness)),
           Member(MinSaturationKey, JNum(c.min_saturation)),
           Member(RedToleranceKey, JNum(c.red_tolerance))>>)

\* #[derive(Deserialize)] for ColorOverrides, from a JSON object
ColorOverrides_deserialize(v0) ==
    Bind(v0, LAMBDA v :
        IF /\ v.t = "obj"
           /\ FieldOk(v.members, EnabledKey, "bool")
           /\ FieldOk(v.members, MinRednessKey, "num")
           /\ FieldOk(v.members, MinSaturationKey, "num")
           /\ FieldOk(v.members, RedToleranceKey, "num")
        THEN [ok |-> TRUE,
              val |-> [enabled        |-> Field(v.members, EnabledKey).b,
                       min_redness    |-> Field(v.members, MinRednessKey).n,
                       min_saturation |-> Field(v.members, MinSaturationKey).n,
                       red_tolerance  |-> Field(v.members, RedToleranceKey).n]]
        ELSE [ok |-> FALSE])

\* #[derive(Serialize)] for PackMeta: the fields in their order, the
\* overrides skipped when None.
PackMeta_serialize(m) ==
    JObj(<<Member(NameKey, JStr(m.name)), Member(IdKey, JStr(m.id)),
           Member(VersionKey, JStr(m.version)), Member(AuthorKey, JStr(m.author))>>
         \o (IF m.custom_color_overrides.some
             THEN <<Member(OverridesKey,
                           ColorOverrides_serialize(m.custom_color_overrides.val))>>
             ELSE <<>>))

\* #[derive(Deserialize)] for PackMeta, from a JSON object: the four strings
\* are required, the overrides optional, other keys are ignored.
PackMeta_deserialize(v) ==
    IF /\ v.t = "obj"
       /\ FieldOk(v.members, NameKey, "str")
       /\ FieldOk(v.members, IdKey, "str")
       /\ FieldOk(v.members, VersionKey, "str")
       /\ FieldOk(v.members, AuthorKey, "str")
    THEN
        Bind(IF Having(v.members, OverridesKey) = {} THEN [ok |-> TRUE, val |-> None]
             ELSE IF ~FieldOk(v.members, OverridesKey, "obj") THEN [ok |-> FALSE]
             ELSE Bind(ColorOverrides_deserialize(Field(v.members, OverridesKey)),
                       LAMBDA c : IF c.ok THEN [ok |-> TRUE, val |-> Some(c.val)]
                                  ELSE [ok |-> FALSE]),
             LAMBDA ov :
                 IF ov.ok
                 THEN [ok |-> TRUE,
                       val |-> [name    |-> Field(v.members, NameKey).s,
                                id      |-> Field(v.members, IdKey).s,
                                version |-> Field(v.members, VersionKey).s,
                                author  |-> Field(v.members, AuthorKey).s,
                                custom_color_overrides |-> ov.val]]
                 ELSE [ok |-> FALSE])
    ELSE [ok |-> FALSE]

\* A Tags::new that starts with a placeholder tag.
Tags_new_with_placeholder == [tags |-> (<<>> :> {}), sets |-> <<>>]

\* ------------------------------------------------------------- tags.rs
\* Tags::new
Tags_new == [tags |-> <<>>, sets |-> <<>>]

\* Serialize for HashMap<String, HashSet<String>>
Map_serialize(m, rev) ==
    Bind(IterOrder(DOMAIN m, rev), LAMBDA keys :
        JObj([i \in 1..Len(keys) |->
                Member(keys[i],
                       Bind(IterOrder(m[keys[i]], rev), LAMBDA vals :
                           JArr([j \in 1..Len(vals) |-> JStr(vals[j])])))]))

\* Deserialize for HashMap<String, HashSet<String>>: an object of arrays of
\* strings; of two members with one key the later one stays.
Map_deserialize(v0) ==
    Bind(v0, LAMBDA v :
        IF /\ v.t = "obj"
           /\ \A i \in 1..Len(v.members) :
                /\ v.members[i].val.t = "arr"
                /\ \A j \in 1..Len(v.members[i].val.items) :
                     v.members[i].val.items[j].t = "str"
        THEN [ok |-> TRUE,
              val |-> [k \in {v.members[i].key : i \in 1..Len(v.members)} |->
                        LET i == CHOOSE i \in Having(v.members, k) :
                                     \A j \in Having(v.members, k) : j <= i
                            items == v.members[i].val.items
                        IN {items[j].s : j \in 1..Len(items)}]]
        ELSE [ok |-> FALSE])

\* #[derive(Serialize)] for Tags
Tags_serialize(t, rev) ==
    JObj(<<Member(TagsKey, Map_serialize(t.tags, rev)),
           Member(SetsKey, Map_serialize(t.sets, rev))>>)

\* #[derive(Deserialize)] for Tags
Tags_deserialize(v) ==
    IF /\ v.t = "obj"
       /\ Cardinality(Having(v.members, TagsKey)) = 1
       /\ Cardinality(Having(v.members, SetsKey)) = 1
    THEN Bind2(Map_deserialize(Field(v.members, TagsKey)),
               Map_deserialize(Field(v.members, SetsKey)),
               LAMBDA tg, st :
                   IF tg.ok /\ st.ok
                   THEN [ok |-> TRUE, val |-> [tags |-> tg.val, sets |-> st.val]]
                   ELSE [ok |-> FALSE])
    ELSE [ok |-> FALSE]

\* json5::from_str::<PackMeta> and json5::from_str::<Tags> of a document
PackMeta_from_str(text) ==
    Bind(json_parse(text), LAMBDA r :
        IF r.ok THEN PackMeta_deserialize(r.val) ELSE [ok |-> FALSE])

Tags_from_str(text) ==
    Bind(json_parse(text), LAMBDA r :
        IF r.ok THEN Tags_deserialize(r.val) ELSE [ok |-> FALSE])

\* --------------------------------------------- asset_pack.rs: reading
\* An insert that leaves the value of a key that is present as it is.
Put_if_absent(m, k, v) == [x \in DOMAIN m \cup {k} |-> IF x \in DOMAIN m THEN m[x] ELSE v]

\* HashMap::insert
Put(m, k, v) == [x \in DOMAIN m \cup {k} |-> IF x = k THEN v ELSE m[x]]

\* The for loop over 0..nr_of_files: n entries decoded from position pos on.
\* A count of 2^31 or more (TooBig) outlasts every stream.
RECURSIVE read_files_meta(_, _, _, _)
read_files_meta(s, pos0, n0, acc0) ==
    Bind3(pos0, n0, acc0, LAMBDA pos, n, acc :
        IF n = 0 THEN [st |-> "ok", val |-> acc, next |-> pos]
        ELSE Bind(FileMetaData_from_read(s, pos), LAMBDA e :
                 IF e.st # "ok" THEN [st |-> e.st, val |-> acc, next |-> pos]
                 ELSE read_files_meta(s, e.next, IF n = TooBig THEN n ELSE n - 1,
                                      Append(acc, e.val))))

\* Vec::sort with impl Ord for FileMetaData: by offset, entries of equal
\* offset staying in their order.
RECURSIVE InsertByOffset(_, _)
InsertByOffset(sorted0, e) ==
    Bind(sorted0, LAMBDA sorted :
        IF sorted = <<>> THEN <<e>>
        ELSE IF U64Less(e.offset, Head(sorted).offset) THEN <<e>> \o sorted
        ELSE <<Head(sorted)>> \o InsertByOffset(Tail(sorted), e))

\* The files_meta vector left in the order of the directory.
sort_keeps_directory_order(metas0) == metas0

RECURSIVE sort(_)
sort(metas0) ==
    Bind(metas0, LAMBDA metas :
        IF metas = <<>> THEN <<>>
        ELSE InsertByOffset(sort(SubSeq(metas, 1, Len(metas) - 1)),
                            metas[Len(metas)]))

\* Which branch of the if chain of from_read takes the file of this
\* (normalized) path.
classify_pack_file_first(path0) ==
    Bind(path0, LAMBDA path :
        IF is_root_json_file(path) THEN "meta"
        ELSE IF is_tags_file(path) THEN "tags"
        ELSE IF is_pack_file(path) THEN "skip"
        ELSE IF is_objects_file(path) THEN "object"
        ELSE "other")

classify(path0) ==
    Bind(path0, LAMBDA path :
        IF is_root_json_file(path) THEN "meta"
        ELSE IF is_tags_file(path) THEN "tags"
        ELSE IF is_objects_file(path) THEN "object"
        ELSE IF ~is_pack_file(path) THEN "other"
        ELSE "skip")

InfoDump(text) == [level |-> "info", text |-> text]
MagicWarning == [level |-> "warn", text |-> <<>>]

\* The Err arm of a failed json5::from_str that bails without showing the
\* document.
decode_failed_silently(acc, text) == [st |-> "err", acc |-> acc]

\* The Err arm of a failed json5::from_str: display_file_as_info of the
\* document, then bail!.
decode_failed(acc, text) ==
    [st |-> "err", acc |-> [acc EXCEPT !.log = Append(@, InfoDump(text))]]

\* The test of the first four bytes that warns about nothing.
check_magic_silent(magic_file_number) == <<>>

\* The test of the first four bytes: what it logs.
check_magic(magic_file_number) ==
    IF magic_file_number # ASSET_PACK_MAGIC_FILE_HEADER THEN <<MagicWarning>> ELSE <<>>

\* The for loop over the sorted files_meta: each payload is read where the
\* previous one ended, then stored or decoded according to its path.
RECURSIVE read_files(_, _, _, _)
read_files(s, pos0, metas0, acc0) ==
    Bind3(pos0, metas0, acc0, LAMBDA pos, metas, acc :
    IF metas = <<>> THEN [st |-> "ok", acc |-> acc]
    ELSE IF Head(metas).size = TooBig THEN [st |-> "crash", acc |-> acc]
    ELSE
    Bind3(Head(metas), read_exact(s, pos, Head(metas).size), classify(Head(metas).path),
          LAMBDA meta, file_data, kind :
        IF ~file_data.ok THEN [st |-> "err", acc |-> acc]
        ELSE IF kind = "meta" THEN
            IF ~valid_utf8(file_data.val) THEN [st |-> "err", acc |-> acc]
            ELSE Bind(PackMeta_from_str(file_data.val), LAMBDA r :
                 IF r.ok
                 THEN read_files(s, file_data.next, Tail(metas),
                                 [acc EXCEPT !.maybe_meta = Some(r.val)])
                 ELSE decode_failed(acc, file_data.val))
        ELSE IF kind = "tags" THEN
            IF ~valid_utf8(file_data.val) THEN [st |-> "err", acc |-> acc]
            ELSE Bind(Tags_from_str(file_data.val), LAMBDA r :
                 IF r.ok
                 THEN read_files(s, file_data.next, Tail(metas),
                                 [acc EXCEPT !.maybe_tags = Some(r.val)])
                 ELSE decode_failed(acc, file_data.val))
        ELSE IF kind = "object" THEN
            read_files(s, file_data.next, Tail(metas),
                       [acc EXCEPT !.object_files = Put(@, meta.path, file_data.val)])
        ELSE IF kind = "other" THEN
            read_files(s, file_data.next, Tail(metas),
                       [acc EXCEPT !.other_files = Put(@, meta.path, file_data.val)])
        ELSE read_files(s, file_data.next, Tail(metas), acc)))

\* The reserved space read and refused unless every byte of it is zero.
read_reserved_expecting_zeros(s, pos) ==
    Bind(read_exact(s, pos, GODOT_METADATA_RESERVED_SPACE), LAMBDA r :
        [r EXCEPT !.ok = r.ok /\ r.val = Zeros(GODOT_METADATA_RESERVED_SPACE)])

\* data.read_exact(&mut [0; GODOT_METADATA_RESERVED_SPACE]): the bytes go
\* into a buffer nothing looks at.
read_reserved(s, pos) == read_exact(s, pos, GODOT_METADATA_RESERVED_SPACE)

\* AssetPack::from_read of the stream s: st is "ok" (pack is the result),
\* "err" (an Err is returned) or "crash" (a panic or a failed allocation).
from_read(s) ==
    Bind(read_exact(s, 0, Len(ASSET_PACK_MAGIC_FILE_HEADER)), LAMBDA magic :
    IF ~magic.ok THEN [st |-> "err", log |-> <<>>]
    ELSE
    Bind2(check_magic(magic.val),
          GodotVersion_from_read(s, Len(ASSET_PACK_MAGIC_FILE_HEADER)),
          LAMBDA log0, godot_version :
    IF godot_version.st # "ok" THEN [st |-> "err", log |-> log0]
    ELSE
    Bind(read_reserved(s, godot_version.next), LAMBDA reserved :
    IF ~reserved.ok THEN [st |-> "err", log |-> log0]
    ELSE
    Bind(read_exact(s, reserved.next, I32), LAMBDA nr_of_files :
    IF ~nr_of_files.ok THEN [st |-> "err", log |-> log0]
    ELSE
    Bind(read_files_meta(s, nr_of_files.next, UsizeOfI32(nr_of_files.val), <<>>),
         LAMBDA files_meta :
    IF files_meta.st # "ok" THEN [st |-> files_meta.st, log |-> log0]
    ELSE
    Bind(read_files(s, files_meta.next, sort(files_meta.val),
                    [object_files |-> <<>>, other_files |-> <<>>,
                     maybe_meta |-> None, maybe_tags |-> None, log |-> log0]),
         LAMBDA files :
    IF files.st # "ok" THEN [st |-> files.st, log |-> files.acc.log]
    ELSE IF ~files.acc.maybe_meta.some THEN [st |-> "crash", log |-> files.acc.log]
    ELSE [st |-> "ok", log |-> files.acc.log,
          pack |-> [godot_version |-> godot_version.val,
                    meta |-> files.acc.maybe_meta.val,
                    tags |-> IF files.acc.maybe_tags.some
                             THEN files.acc.maybe_tags.val ELSE Tags_new,
                    object_files |-> files.acc.object_files,
                    other_files |-> files.acc.other_files]]))))))

\* The files_meta vector of from_read before it is sorted: the directory
\* entries of the stream s, in stored order, with their normalized paths.
directory(s) ==
    Bind(read_exact(s, Len(ASSET_PACK_MAGIC_FILE_HEADER) + GodotVersion_size_in_bytes
                       + GODOT_METADATA_RESERVED_SPACE, I32),
         LAMBDA nr_of_files :
             IF ~nr_of_files.ok THEN <<>>
             ELSE read_files_meta(s, nr_of_files.next,
                                  UsizeOfI32(nr_of_files.val), <<>>).val)

\* The directory entries of the stream s in stored order, each with the path
\* as it is stored (read_string, before the prefixes are trimmed) and with
\* offset and size as numbers.
RECURSIVE read_stored(_, _, _, _)
read_stored(s, pos0, n0, acc0) ==
    Bind3(pos0, n0, acc0, LAMBDA pos, n, acc :
        IF n = 0 THEN [entries |-> acc, next |-> pos]
        ELSE Bind(FileMetaData_from_read(s, pos), LAMBDA e :
                 IF e.st # "ok" THEN [entries |-> acc, next |-> pos]
                 ELSE read_stored(s, e.next, IF n = TooBig THEN n ELSE n - 1,
                                  Append(acc, [stored |-> e.stored,
                                               path   |-> e.val.path,
                                               offset |-> UsizeOfI64(e.val.offset),
                                               size   |-> e.val.size]))))

stored_directory(s) ==
    Bind(read_exact(s, Len(ASSET_PACK_MAGIC_FILE_HEADER) + GodotVersion_size_in_bytes
                       + GODOT_METADATA_RESERVED_SPACE, I32),
         LAMBDA nr_of_files :
             IF ~nr_of_files.ok THEN [entries |-> <<>>, next |-> 0]
             ELSE read_stored(s, nr_of_files.next, UsizeOfI32(nr_of_files.val), <<>>))

\* --------------------------------------------- asset_pack.rs: writing
RECURSIVE SumOfSizes(_, _)
SumOfSizes(files, n) ==
    IF n = 0 THEN 0 ELSE files[n].meta.size + SumOfSizes(files, n - 1)

RECURSIVE SumOfEntrySizes(_, _)
SumOfEntrySizes(files, n) ==
    IF n = 0 THEN 0
    ELSE calculate_binary_size(files[n].meta) + SumOfEntrySizes(files, n - 1)

RECURSIVE Concat(_)
Concat(seqs0) ==
    Bind(seqs0, LAMBDA seqs :
        IF seqs = <<>> THEN <<>> ELSE Head(seqs) \o Concat(Tail(seqs)))

\* The starting offset computed without the field that holds the number of
\* files.
files_block_starting_offset_without_count(files0) ==
    Bind(files0, LAMBDA files :
        Len(ASSET_PACK_MAGIC_FILE_HEADER) + GodotVersion_size_in_bytes
        + GODOT_METADATA_RESERVED_SPACE
        + SumOfEntrySizes(files, Len(files)))

calculate_files_block_starting_offset(files0) ==
    Bind(files0, LAMBDA files :
        Len(ASSET_PACK_MAGIC_FILE_HEADER) + GodotVersion_size_in_bytes
        + GODOT_METADATA_RESERVED_SPACE + I32
        + SumOfEntrySizes(files, Len(files)))

\* The files vector without the entry of the second metadata document.
files_to_write_without_pack_file(p, objects, others, rev) ==
    Bind3(RESOURCE_PATH_PREFIX \o ASSET_PACK_PREFIX \o p.meta.id,
          json_text(PackMeta_serialize(p.meta)),
          json_text(Tags_serialize(p.tags, rev)),
          LAMBDA file_path_prefix, pack_meta_file, tags_file :
    LET File(path, data) == [meta |-> FileMetaData_new(path, Len(data)), data |-> data]
    IN
    Bind(<< File(file_path_prefix \o <<Dot>> \o JsonExtension, pack_meta_file),
            File(file_path_prefix \o <<Slash>> \o TAGS_FILE_NAME, tags_file) >>
         \o [i \in 1..Len(objects) |->
               File(file_path_prefix \o <<Slash>> \o objects[i],
                    p.object_files[objects[i]])]
         \o [i \in 1..Len(others) |->
               File(file_path_prefix \o <<Slash>> \o others[i],
                    p.other_files[others[i]])],
         LAMBDA files :
    Bind(calculate_files_block_starting_offset(files), LAMBDA start :
        [i \in 1..Len(files) |->
           [files[i] EXCEPT !.meta.offset = LE64(start + SumOfSizes(files, i - 1))]])))

\* The files vector of to_write once the offsets are assigned.  objects and
\* others are the orders in which the two HashMaps are visited, rev chooses
\* the order in which the tag index is serialized.
files_to_write(p, objects, others, rev) ==
    Bind3(RESOURCE_PATH_PREFIX \o ASSET_PACK_PREFIX \o p.meta.id,
          json_text(PackMeta_serialize(p.meta)),
          json_text(Tags_serialize(p.tags, rev)),
          LAMBDA file_path_prefix, pack_meta_file, tags_file :
    LET File(path, data) == [meta |-> FileMetaData_new(path, Len(data)), data |-> data]
    IN
    Bind(<< File(file_path_prefix \o <<Dot>> \o JsonExtension, pack_meta_file),
            File(file_path_prefix \o <<Slash>> \o PACK_FILE_NAME, pack_meta_file),
            File(file_path_prefix \o <<Slash>> \o TAGS_FILE_NAME, tags_file) >>
         \o [i \in 1..Len(objects) |->
               File(file_path_prefix \o <<Slash>> \o objects[i],
                    p.object_files[objects[i]])]
         \o [i \in 1..Len(others) |->
               File(file_path_prefix \o <<Slash>> \o others[i],
                    p.other_files[others[i]])],
         LAMBDA files :
    Bind(calculate_files_block_starting_offset(files), LAMBDA start :
        [i \in 1..Len(files) |->
           [files[i] EXCEPT !.meta.offset = LE64(start + SumOfSizes(files, i - 1))]])))

\* to_write with the payloads written from the last file to the first.
to_write_payloads_reversed(p, objects, others, rev) ==
    Bind(files_to_write(p, objects, others, rev), LAMBDA files :
        ASSET_PACK_MAGIC_FILE_HEADER
        \o GodotVersion_to_write(p.godot_version)
        \o Zeros(GODOT_METADATA_RESERVED_SPACE)
        \o LE32(Len(files))
        \o Concat([i \in 1..Len(files) |-> FileMetaData_to_write(files[i].meta)])
        \o Concat([i \in 1..Len(files) |-> files[Len(files) + 1 - i].data]))

\* AssetPack::to_write into a sink that takes every byte: the bytes written.
to_write(p, objects, others, rev) ==
    Bind(files_to_write(p, objects, others, rev), LAMBDA files :
        ASSET_PACK_MAGIC_FILE_HEADER
        \o GodotVersion_to_write(p.godot_version)
        \o Zeros(GODOT_METADATA_RESERVED_SPACE)
        \o LE32(Len(files))
        \o Concat([i \in 1..Len(files) |-> FileMetaData_to_write(files[i].meta)])
        \o Concat([i \in 1..Len(files) |-> files[i].data]))

\* ----------------------------------------- asset_pack.rs: clean_tags
\* Every set of the map without the members that are no key of `existing`.
remove_not_existing(m, existing) ==
    [k \in DOMAIN m |-> {x \in m[k] : x \in DOMAIN existing}]

remove_empty_keeps_all(m) == m

\* The map without the keys whose set is empty.
remove_empty(m) == [k \in {k \in DOMAIN m : m[k] # {}} |-> m[k]]

\* The first two loops with the emptiness test made before the files of the
\* tag are removed.
cleaned_tags_empty_tested_first(p) ==
    remove_not_existing(remove_empty(p.tags.tags), p.object_files)

\* The first two loops dropping every tag that names a missing file.
cleaned_tags_drops_whole_tag(p) ==
    remove_empty([t \in {t \in DOMAIN p.tags.tags :
                           p.tags.tags[t] \subseteq DOMAIN p.object_files}
                  |-> p.tags.tags[t]])

\* The first two loops of clean_tags: tags.tags when they are done.
cleaned_tags(p) == remove_empty(remove_not_existing(p.tags.tags, p.object_files))

\* The last two loops of clean_tags, which look keys up in self.tags.tags
\* as the first two loops left it.
cleaned_sets(p, tags) == remove_empty(remove_not_existing(p.tags.sets, tags))

\* clean_tags with the sets cleaned against the tags as they were at the start.
clean_tags_sets_see_old_tags(p) ==
    [p EXCEPT !.tags = [tags |-> cleaned_tags(p),
                        sets |-> cleaned_sets(p, p.tags.tags)]]

\* clean_tags that also drops the object files no tag names.
clean_tags_drops_untagged_objects(p) ==
    LET t == cleaned_tags(p) IN
    [p EXCEPT !.tags = [tags |-> t, sets |-> cleaned_sets(p, t)],
              !.object_files =
                  [f \in {f \in DOMAIN @ : \E k \in DOMAIN t : f \in t[k]} |-> @[f]]]

\* AssetPack::clean_tags: the pack after the call.
\* clean_tags that leaves the pack as it is.
clean_tags_skipped(p) == p

clean_tags(p) ==
    LET t == cleaned_tags(p) IN
    [p EXCEPT !.tags = [tags |-> t, sets |-> cleaned_sets(p, t)]]

\* ---------------------------------------------------- tags.rs: Display
Newline == <<10>>
Indent == <<32, 32, 32, 32>>

\* One line of a section: the key, then every member between the marks
\* `open` and `close`.
fmt_line(key, members, open, close) ==
    Indent \o Indent \o key \o <<Ascii[":"], 32, Ascii["["], 32>>
    \o Concat([i \in 1..Len(members) |-> open \o members[i] \o close])
    \o <<32, Ascii["]"]>> \o Newline

\* impl Display for Tags: the text written.  Both loops walk self.tags.
Tags_fmt(t, rev) ==
    Bind(IterOrder(DOMAIN t.tags, rev), LAMBDA keys :
        <<84>> \o Str(<<"a","g">>) \o <<32>> \o Str(<<"a","n","d">>) \o <<32>>
        \o Str(<<"t","a","g">>) \o <<32>> \o Str(<<"s","e","t","s",":">>) \o Newline
        \o Newline
        \o Indent \o <<84>> \o Str(<<"a","g","s",":">>) \o Newline
        \o Concat([i \in 1..Len(keys) |->
                     fmt_line(keys[i], IterOrder(t.tags[keys[i]], rev),
                              <<39>>, <<39, Ascii[","], 32>>)])
        \o Newline
        \o Indent \o <<84>> \o Str(<<"a","g">>) \o <<32>> \o Str(<<"s","e","t","s",":">>)
        \o Newline
        \o Concat([i \in 1..Len(keys) |->
                     fmt_line(keys[i], IterOrder(t.tags[keys[i]], rev),
                              <<>>, <<Ascii[","], 32>>)]))

\* -------------------------------------------------------------- main.rs
\* write_pack that does not look whether the output file exists.
write_pack_over_existing(dir, p, name, overwrite_allowed, objects, others, rev) ==
    Put(dir, name, to_write(p, objects, others, rev))

\* write_pack: the output directory after the call.  An output file that
\* exists is left alone unless overwrite_allowed; otherwise File::create
\* makes or truncates the file and to_write fills it.
write_pack(dir, p, name, overwrite_allowed, objects, others, rev) ==
    IF name \in DOMAIN dir /\ ~overwrite_allowed THEN dir
    ELSE Put(dir, name, to_write(p, objects, others, rev))

\* -------------------------------------------------------------- inputs
\* Bounds of the model.
MaxTags == 2        \* tag names a tag index is built from
MaxFiles == 2       \* file paths the tags of a tag index can name
MaxCleans == 2      \* clean_tags calls in a row
MaxWrites == 2      \* to_write calls of one run
MaxExtra == 2       \* entries of a raw archive besides the three documents

Upto(q, n) == {q[i] : i \in 1..(IF n < Len(q) THEN n ELSE Len(q))}

Obj(name) == OBJECT_FILES_PREFIX \o name
RockFile == Obj(Str(<<"r">>))
GhostFile == Obj(Str(<<"g">>))
CrateFile == Obj(Str(<<"c">>))
DoorFile == Str(<<"t","e","x","t","u","r","e","s","/","p","o","r","t","a","l","s","/","d">>)

RocksTag == Str(<<"r","o","c","k","s">>)
EmptyTag == Str(<<"e","m","p","t","y">>)
TreesTag == Str(<<"t","r","e","e","s">>)
LosesOneSet == Str(<<"l","o","s","e","s">>)
EmptySet == Str(<<"e","m","p","t","y">>)

TagNames == Upto(<<RocksTag, EmptyTag, TreesTag>>, MaxTags)
SetNames == {LosesOneSet, EmptySet}
FileNames == Upto(<<RockFile, GhostFile, CrateFile>>, MaxFiles)

\* All maps from some of the keys to sets of the values.
MapsOf(keys, values) ==
    UNION {[ks -> SUBSET values] : ks \in SUBSET keys}

\* The payload the model gives a file of the path.
DataOf(path) ==
    IF path = RockFile THEN <<1>>
    ELSE IF path = DoorFile THEN <<2, 3>>
    ELSE <<>>

FilesOf(paths) == [f \in paths |-> DataOf(f)]

PlainVersion == [version |-> 1, major |-> 3, minor |-> 2, revision |-> 4]
OddVersion == [version |-> -1, major |-> 0, minor |-> 256, revision |-> 70000]

IdA == Str(<<"a">>)
IdB == Str(<<"b">>)
IdPacks == Str(<<"p","a","c","k","s">>)
IdNested == Str(<<"a","/","b">>)

SomeOverrides ==
    Some([enabled |-> FALSE, min_redness |-> 1, min_saturation |-> 0,
          red_tolerance |-> 4])

MetaOf(id, name, overrides) ==
    [name |-> name, id |-> id, version |-> Str(<<"1">>), author |-> <<>>,
     custom_color_overrides |-> overrides]

NameN == Str(<<"n">>)
NameM == Str(<<"m">>)

\* The text of a document that is no JSON value.
MalformedText == Str(<<"{","n","a","m","e">>)

\* A pack as a test builds it (new_empty_pack and inserts), for clean_tags:
\* any tag index over the names, with the first files present as objects.
CleanInputs ==
    {[godot_version |-> PlainVersion,
      meta |-> MetaOf(<<>>, <<>>, SomeOverrides),
      tags |-> [tags |-> t, sets |-> s],
      object_files |-> FilesOf(o),
      other_files |-> FilesOf({DoorFile})] :
        t \in MapsOf(TagNames, FileNames), s \in MapsOf(SetNames, TagNames),
        o \in {Upto(<<RockFile, GhostFile, CrateFile>>, k) : k \in 0..MaxFiles}}

\* Packs as a caller can hold them before writing: the keys of object_files
\* are object paths, those of other_files are paths from_read keeps as other.
CodecTagIndexes ==
    { Tags_new,
      [tags |-> (RocksTag :> {RockFile}), sets |-> (LosesOneSet :> {RocksTag})],
      [tags |-> (RocksTag :> {RockFile, GhostFile} @@ EmptyTag :> {}),
       sets |-> (EmptySet :> {} @@ LosesOneSet :> {RocksTag, EmptyTag})] }

CodecInputs ==
    {[godot_version |-> h.version,
      meta |-> MetaOf(id, NameN, h.overrides),
      tags |-> t,
      object_files |-> FilesOf(o),
      other_files |-> FilesOf(x)] :
        h \in {[version |-> PlainVersion, overrides |-> None],
               [version |-> OddVersion, overrides |-> SomeOverrides]},
        id \in {IdA, <<>>, IdPacks, IdNested},
        t \in CodecTagIndexes,
        o \in {{}, {RockFile}, {RockFile, CrateFile}}, x \in {{}, {DoorFile}}}

\* write_file_meta of the serialization test, with the checksum bytes given.
write_file_meta(path, offset, size, md5) ==
    LE32(Len(path)) \o path \o LE64(offset) \o LE64(size) \o md5

\* An archive laid out as create_raw_test_pack lays it out: the header, one
\* directory entry per file in the order given, then the payloads in the
\* same order, each offset that of its payload.
RawArchive(v, entries0) ==
    Bind(entries0, LAMBDA entries :
    LET dirSize[i \in 0..Len(entries)] ==
            IF i = 0 THEN 0
            ELSE dirSize[i - 1] + I32 + Len(entries[i].path) + I64 * 2 + MD5_BYTES
        dataSize[i \in 0..Len(entries)] ==
            IF i = 0 THEN 0 ELSE dataSize[i - 1] + Len(entries[i].data)
    IN
    Bind2(Len(ASSET_PACK_MAGIC_FILE_HEADER) + 4 * I32 + 16 * I32 + I32
          + dirSize[Len(entries)],
          dataSize,
          LAMBDA start, sizes :
        ASSET_PACK_MAGIC_FILE_HEADER
        \o GodotVersion_to_write(v)
        \o Zeros(16 * I32)
        \o LE32(Len(entries))
        \o Concat([i \in 1..Len(entries) |->
                     write_file_meta(entries[i].path, start + sizes[i - 1],
                                     Len(entries[i].data), Zeros(MD5_BYTES))])
        \o Concat([i \in 1..Len(entries) |-> entries[i].data])))

Stored(id, path) == RESOURCE_PATH_PREFIX \o ASSET_PACK_PREFIX \o id \o <<Slash>> \o path
RawEntry(path, data) == [path |-> path, data |-> data]

RootDocument ==
    RawEntry(RESOURCE_PATH_PREFIX \o ASSET_PACK_PREFIX \o IdA \o <<Dot>> \o JsonExtension,
             json_text(PackMeta_serialize(MetaOf(IdA, NameN, None))))

\* The duplicate of the root document, or what a hand edit made of it.
DuplicateDocuments ==
    {RawEntry(Stored(IdA, PACK_FILE_NAME), d) :
        d \in {RootDocument.data,
               json_text(PackMeta_serialize(MetaOf(IdA, NameM, None))),
               MalformedText}}

TagsDocument ==
    RawEntry(Stored(IdA, TAGS_FILE_NAME),
             json_text(Tags_serialize(
                 [tags |-> (RocksTag :> {RockFile}), sets |-> <<>>], FALSE)))

\* A tag index stored below the object directory.
ObjectTagsEntry ==
    RawEntry(Stored(IdA, Obj(TAGS_FILE_NAME)),
             json_text(Tags_serialize(
                 [tags |-> (TreesTag :> {CrateFile}), sets |-> <<>>], FALSE)))

ExtraEntries ==
    { RawEntry(Stored(IdA, RockFile), <<1>>),
      RawEntry(Stored(IdB, RockFile), <<9>>),
      RawEntry(Stored(IdA, Obj(PACK_FILE_NAME)), <<5>>),
      RawEntry(Stored(IdA, Str(<<"s","u","b","/">>) \o PACK_FILE_NAME), <<6>>),
      RawEntry(Stored(IdA, DoorFile), <<2, 3>>),
      ObjectTagsEntry }

SeqsUpTo(S, n) == UNION {[1..k -> S] : k \in 0..n}

\* The directories of the raw archives: the two metadata documents in either
\* order, the tag index or not, then the other entries.
RawDirectories ==
    {(IF dupFirst THEN <<dup, RootDocument>> ELSE <<RootDocument, dup>>)
     \o (IF withTags THEN <<TagsDocument>> ELSE <<>>) \o extra :
        dup \in DuplicateDocuments, dupFirst \in BOOLEAN, withTags \in BOOLEAN,
        extra \in SeqsUpTo(ExtraEntries, MaxExtra)}

\* Directory entries for FileMetaData::from_read alone.
EntryIds == {IdA, IdB, <<>>, IdPacks, Str(<<"1","2","3","4","5","6","7","8">>)}
NestedPng == Str(<<"a","/","b",".","p","n","g">>)
EntryRests == {NestedPng, Str(<<"b",".","p","n","g">>), RockFile}
TwelveBytes == [i \in 1..MD5_BYTES |-> 12]

EntryInputs ==
    {[path |-> path, offset |-> offset, size |-> size, md5 |-> md5] :
        path \in {Stored(id, rest) : id \in EntryIds, rest \in EntryRests}
                 \cup {RESOURCE_PATH_PREFIX
                       \o Str(<<"x","3","d","l","f","k","/","t","e","s","t","/",
                                "b","l","a",".","t","x","t">>)},
        offset \in {0, 12, -1}, size \in {0, 987},
        md5 \in {Zeros(MD5_BYTES), TwelveBytes}}

\* Archives that are damaged or laid out unlike to_write lays them out.
MaxGap == 2         \* unused bytes before a payload or after the last one

BadMagic == <<71, 68, 80, 88>>
Filler(n) == [i \in 1..n |-> 7]

\* A document that is JSON but lacks the fields of PackMeta and of Tags, and
\* one that is no UTF-8.
SchemaText == json_text(JObj(<<Member(NameKey, JStr(NameN))>>))
NonUtf8Text == <<Ascii["{"], 255, Ascii["}"]>>

RootEntry(data) == RawEntry(RootDocument.path, data)
TagsEntry(data) == RawEntry(TagsDocument.path, data)
RockEntry == RawEntry(Stored(IdA, RockFile), <<1>>)
DoorEntry == RawEntry(Stored(IdA, DoorFile), <<2, 3>>)

LaidOutDirectories ==
    { <<RootDocument, RawEntry(Stored(IdA, PACK_FILE_NAME), RootDocument.data),
        TagsDocument, RockEntry, DoorEntry>>,
      <<RootDocument, RockEntry>>,
      <<DoorEntry, RootDocument>>,
      <<RootDocument>>,
      <<RockEntry, DoorEntry>>,
      <<TagsDocument, DoorEntry>>,
      << >>,
      <<RootEntry(MalformedText), RockEntry>>,
      <<RockEntry, RootEntry(MalformedText)>>,
      <<RootEntry(SchemaText)>>,
      <<RootEntry(NonUtf8Text)>>,
      <<RootDocument, TagsEntry(MalformedText)>>,
      <<RootDocument, TagsEntry(SchemaText), DoorEntry>>,
      <<RootDocument, TagsEntry(NonUtf8Text)>> }

\* The archive of create_raw_test_pack with the first four bytes given and
\* len unused bytes before the payload of entry at + 1 (after the last
\* payload when at is the number of entries); the offsets are those of the
\* payloads.
LaidOutArchive(magic, v, entries0, at, len) ==
    Bind(entries0, LAMBDA entries :
    LET dirSize[i \in 0..Len(entries)] ==
            IF i = 0 THEN 0
            ELSE dirSize[i - 1] + I32 + Len(entries[i].path) + I64 * 2 + MD5_BYTES
        dataSize[i \in 0..Len(entries)] ==
            IF i = 0 THEN 0 ELSE dataSize[i - 1] + Len(entries[i].data)
    IN
    Bind2(Len(magic) + 4 * I32 + 16 * I32 + I32 + dirSize[Len(entries)],
          dataSize,
          LAMBDA start, sizes :
        magic
        \o GodotVersion_to_write(v)
        \o Zeros(16 * I32)
        \o LE32(Len(entries))
        \o Concat([i \in 1..Len(entries) |->
                     write_file_meta(entries[i].path,
                                     start + sizes[i - 1] + (IF i > at THEN len ELSE 0),
                                     Len(entries[i].data), Zeros(MD5_BYTES))])
        \o Concat([i \in 1..Len(entries) |->
                     (IF i = at + 1 THEN Filler(len) ELSE <<>>) \o entries[i].data])
        \o (IF at = Len(entries) THEN Filler(len) ELSE <<>>)))

\* The layouts: no unused bytes, or some before one payload or at the end.
Layouts(entries) ==
    {[at |-> 0, len |-> 0]}
    \cup {[at |-> at, len |-> len] : at \in 0..Len(entries), len \in 1..MaxGap}

\* Archives whose directory is in another order than their payloads, whose
\* reserved bytes are not zero, or in which one length field is out of range.
EmptyRockEntry == RawEntry(Stored(IdA, RockFile), <<>>)
OtherRockEntry == RawEntry(Stored(IdB, RockFile), <<9>>)

\* Directories given in the order of their payloads.
VariedDirectories ==
    { <<RootDocument, TagsDocument, RockEntry, DoorEntry>>,
      <<RootDocument, RockEntry, OtherRockEntry>>,
      <<RootDocument, OtherRockEntry, RockEntry>>,
      <<RootDocument, EmptyRockEntry, OtherRockEntry>>,
      <<RootDocument, OtherRockEntry, EmptyRockEntry>>,
      <<RootDocument, RawEntry(Stored(IdA, PACK_FILE_NAME),
                               json_text(PackMeta_serialize(MetaOf(IdA, NameM, None))))>>,
      <<RockEntry, DoorEntry>> }

NoField == [field |-> "none", at |-> 0, value |-> 0]

\* The values written in the place of a length: negative ones, and one that
\* is larger than what is left of the stream.
OutOfRange == {-1, -256, 1000}

BadFields(entries) ==
    {[field |-> "count", at |-> 0, value |-> v] : v \in OutOfRange}
    \cup {[field |-> f, at |-> at, value |-> v] :
            f \in {"path_length", "size"}, at \in 1..Len(entries), v \in OutOfRange}

\* The archive of create_raw_test_pack with the payloads in the order of
\* entries0 and the directory in the order `order` (a sequence of indexes
\* into entries0), each offset that of the entry's payload; every reserved
\* byte is `fill`, and the field `bad` names holds bad.value.
VariedArchive(v, entries0, order, fill, bad) ==
    Bind(entries0, LAMBDA entries :
    LET dirSize[i \in 0..Len(entries)] ==
            IF i = 0 THEN 0
            ELSE dirSize[i - 1] + I32 + Len(entries[i].path) + I64 * 2 + MD5_BYTES
        dataSize[i \in 0..Len(entries)] ==
            IF i = 0 THEN 0 ELSE dataSize[i - 1] + Len(entries[i].data)
        Held(field, k, value) ==
            IF bad.field = field /\ bad.at = k THEN bad.value ELSE value
    IN
    Bind2(Len(ASSET_PACK_MAGIC_FILE_HEADER) + 4 * I32 + 16 * I32 + I32
          + dirSize[Len(entries)],
          dataSize,
          LAMBDA start, sizes :
        ASSET_PACK_MAGIC_FILE_HEADER
        \o GodotVersion_to_write(v)
        \o [i \in 1..(16 * I32) |-> fill]
        \o LE32(Held("count", 0, Len(entries)))
        \o Concat([k \in 1..Len(order) |->
                     LE32(Held("path_length", k, Len(entries[order[k]].path)))
                     \o entries[order[k]].path
                     \o LE64(start + sizes[order[k] - 1])
                     \o LE64(Held("size", k, Len(entries[order[k]].data)))
                     \o Zeros(MD5_BYTES)])
        \o Concat([i \in 1..Len(entries) |-> entries[i].data])))

\* The sinks FileMetaData::to_write writes into.
Sinks ==
    {[kind |-> "vec", cap |-> 0, room |-> 0, written |-> <<>>]}
    \cup {[kind |-> "short", cap |-> c, room |-> 0, written |-> <<>>] : c \in {1, 8, 64}}
    \cup {[kind |-> "slice", cap |-> 0, room |-> r, written |-> <<>>] : r \in {0, 40, 64}}

\* The tool: the pack files below the input directory and the output
\* directory as main finds them.
MaxPacks == 2       \* pack files the glob yields

\* A tag index that names a file the pack lacks, a tag without files and a
\* set of a tag that goes.
MessyTags ==
    [tags |-> (RocksTag :> {RockFile, GhostFile}) @@ (TreesTag :> {GhostFile})
              @@ (EmptyTag :> {}),
     sets |-> (LosesOneSet :> {RocksTag, TreesTag}) @@ (EmptySet :> {TreesTag})]

\* Pack files: two that can be read, one whose metadata document is
\* malformed and one without a metadata document.
ToolArchives ==
    { RawArchive(PlainVersion,
                 <<RootDocument, TagsEntry(json_text(Tags_serialize(MessyTags, FALSE))),
                   RockEntry, DoorEntry>>),
      RawArchive(PlainVersion, <<RootDocument, RockEntry>>),
      RawArchive(PlainVersion, <<RootEntry(MalformedText), RockEntry>>),
      RawArchive(PlainVersion, <<RockEntry, DoorEntry>>) }

\* File names; the same name can lie in two directories below the input
\* directory.
ToolNames == {"x.dungeondraft_pack", "y.dungeondraft_pack"}

\* What an output file that was there before the tool ran holds.
OldBytes == <<0>>

\* ------------------------------------------------------------- states
Start(kind) ==
    /\ outcome = "none" /\ last = kind /\ before = None /\ log = <<>>
    /\ entry = None /\ cleans = 0 /\ writes = 0
    /\ output_dir = <<>> /\ todo = <<>>

\* A test or a caller built a pack value.
InitNew ==
    /\ pack \in {Some(p) : p \in CodecInputs}
    /\ stream = <<>> /\ given = [kind |-> "pack", pack |-> pack.val]
    /\ Start("new")

\* A pack file lies on disk.
InitArchive ==
    /\ \E dir \in RawDirectories :
          /\ stream = RawArchive(PlainVersion, dir)
          /\ given = [kind |-> "archive", version |-> PlainVersion, entries |-> dir]
    /\ pack = None
    /\ Start("archive")

Init == InitNew \/ InitArchive

\* A pack file lies on disk that is laid out with unused bytes, does not
\* start with the magic number, lacks a document, holds a damaged one, or
\* ends early: cut is the number of bytes missing at its end.
InitLaidOut ==
    /\ \E magic \in {ASSET_PACK_MAGIC_FILE_HEADER, BadMagic},
          dir \in LaidOutDirectories :
       \E lay \in Layouts(dir) :
       \E full \in {LaidOutArchive(magic, PlainVersion, dir, lay.at, lay.len)} :
       \E cut \in 0..(IF lay.len = 0 THEN Len(full) ELSE 0) :
          /\ stream = SubSeq(full, 1, Len(full) - cut)
          /\ given = [kind |-> "laid_out", magic |-> magic, entries |-> dir,
                      at |-> lay.at, len |-> lay.len, cut |-> cut]
    /\ pack = None
    /\ Start("archive")

\* test_clean_tags: a pack built by hand.
InitClean ==
    /\ pack \in {Some(p) : p \in CleanInputs}
    /\ stream = <<>> /\ given = [kind |-> "pack", pack |-> pack.val]
    /\ Start("new")

\* packed_file_from_read: the bytes of one directory entry.
InitEntry ==
    /\ \E e \in EntryInputs :
          /\ stream = write_file_meta(e.path, e.offset, e.size, e.md5)
          /\ given = [kind |-> "entry", entry |-> e]
    /\ pack = None
    /\ Start("entry_bytes")

\* A pack file lies on disk whose directory is in any order, whose reserved
\* bytes are zero or not, or in which one length field is out of range.
InitVaried ==
    /\ \E dir \in VariedDirectories :
       \E v \in {[order |-> order, fill |-> fill, bad |-> NoField] :
                     order \in Orders(1..Len(dir)), fill \in {0, 255}}
             \cup {[order |-> [i \in 1..Len(dir) |-> i], fill |-> 0, bad |-> bad] :
                     bad \in BadFields(dir)} :
          /\ stream = VariedArchive(PlainVersion, dir, v.order, v.fill, v.bad)
          /\ given = [kind |-> "varied", entries |-> dir, order |-> v.order,
                      fill |-> v.fill, bad |-> v.bad]
    /\ pack = None
    /\ Start("archive")

\* A FileMetaData is about to be written into a sink.
InitSink ==
    /\ \E e \in EntryInputs, sink \in Sinks :
          /\ entry = Some([path |-> e.path, offset |-> LE64(e.offset),
                           size |-> e.size, md5 |-> e.md5])
          /\ given = [kind |-> "sink", sink |-> sink]
    /\ stream = <<>> /\ pack = None
    /\ outcome = "none" /\ last = "entry" /\ before = None /\ log = <<>>
    /\ cleans = 0 /\ writes = 0
    /\ output_dir = <<>> /\ todo = <<>>

\* main after its arguments are parsed: the glob is about to yield the pack
\* files of todo, and the output directory holds some files already.
InitTool ==
    /\ todo \in SeqsUpTo({[name |-> n, bytes |-> b] : n \in ToolNames, b \in ToolArchives},
                         MaxPacks)
    /\ output_dir \in {[n \in old |-> OldBytes] : old \in SUBSET ToolNames}
    /\ \E overwrite_allowed \in BOOLEAN :
          given = [kind |-> "tool", overwrite_allowed |-> overwrite_allowed,
                   todo |-> todo, output_dir |-> output_dir]
    /\ stream = <<>> /\ pack = None
    /\ outcome = "none" /\ last = "tool" /\ before = None /\ log = <<>>
    /\ entry = None /\ cleans = 0 /\ writes = 0

\* ------------------------------------------------------------ actions
\* AssetPack::from_read on the archive in the stream.
FromRead ==
    /\ last \in {"archive", "to_write"}
    /\ \E r \in {from_read(stream)} :
          /\ outcome' = r.st
          /\ pack' = IF r.st = "ok" THEN Some(r.pack) ELSE None
          /\ log' = r.log
    /\ last' = "from_read"
    /\ before' = IF last = "to_write" THEN before ELSE None
    /\ cleans' = 0
    /\ UNCHANGED <<stream, entry, given, writes, output_dir, todo>>

\* AssetPack::clean_tags on the pack held.
CleanTags ==
    /\ pack.some
    /\ cleans < MaxCleans
    /\ pack' = Some(clean_tags(pack.val))
    /\ before' = pack
    /\ last' = "clean_tags"
    /\ outcome' = "ok"
    /\ cleans' = cleans + 1
    /\ UNCHANGED <<stream, log, entry, given, writes, output_dir, todo>>

\* AssetPack::to_write of the pack held, into an empty Vec or a new file.
ToWrite ==
    /\ pack.some
    /\ last # "to_write"
    /\ writes < MaxWrites
    /\ \E objects \in Orders(DOMAIN pack.val.object_files),
          others \in Orders(DOMAIN pack.val.other_files),
          rev \in BOOLEAN :
          stream' = to_write(pack.val, objects, others, rev)
    /\ before' = pack
    /\ last' = "to_write"
    /\ outcome' = "ok"
    /\ cleans' = 0
    /\ writes' = writes + 1
    /\ UNCHANGED <<pack, log, entry, given, output_dir, todo>>

\* FileMetaData::from_read on the bytes of one directory entry.
FileMetaDataFromRead ==
    /\ last = "entry_bytes"
    /\ \E r \in {FileMetaData_from_read(stream, 0)} :
          /\ outcome' = r.st
          /\ entry' = IF r.st = "ok" THEN Some(r.val) ELSE None
    /\ last' = "entry_from_read"
    /\ UNCHANGED <<stream, pack, before, log, given, cleans, writes, output_dir, todo>>

\* FileMetaData::to_write of the entry held, into the sink given.
FileMetaDataToWrite ==
    /\ last = "entry"
    /\ \E r \in {FileMetaData_to_write_into(entry.val, given.sink)} :
          /\ outcome' = r.st
          /\ stream' = r.sink.written
    /\ last' = "entry_to_write"
    /\ UNCHANGED <<pack, before, log, entry, given, cleans, writes, output_dir, todo>>

\* One turn of the loop of main: handle_pack of the next pack file.  A panic
\* ends the process, and nothing is handled after it.
HandlePack ==
    /\ last \in {"tool", "handle_pack"}
    /\ outcome # "crash"
    /\ todo # <<>>
    /\ \E r \in {from_read(Head(todo).bytes)} :
          /\ log' = r.log
          /\ outcome' = r.st
          /\ IF r.st = "ok"
             THEN \E cleaned \in {clean_tags(r.pack)} :
                     /\ before' = Some(r.pack)
                     /\ pack' = Some(cleaned)
                     /\ \E objects \in Orders(DOMAIN cleaned.object_files),
                           others \in Orders(DOMAIN cleaned.other_files),
                           rev \in BOOLEAN :
                           output_dir' = write_pack(output_dir, cleaned, Head(todo).name,
                                                    given.overwrite_allowed,
                                                    objects, others, rev)
                     /\ todo' = Tail(todo)
             ELSE /\ before' = None
                  /\ pack' = None
                  /\ output_dir' = output_dir
                  /\ todo' = IF r.st = "crash" THEN todo ELSE Tail(todo)
    /\ stream' = Head(todo).bytes
    /\ last' = "handle_pack"
    /\ UNCHANGED <<entry, given, cleans, writes>>

\* debug!("{}", pack.tags) of handle_pack: the tag index of the pack held is
\* rendered into the log.
DisplayTags ==
    /\ pack.some
    /\ last \in {"new", "clean_tags"}
    /\ \E rev \in BOOLEAN :
          log' = <<[level |-> "debug", text |-> Tags_fmt(pack.val.tags, rev)]>>
    /\ last' = "display"
    /\ UNCHANGED <<stream, pack, outcome, before, entry, given, cleans, writes,
                   output_dir, todo>>

Next == FromRead \/ CleanTags \/ ToWrite

Spec == Init /\ [][Next]_vars

NextClean == CleanTags

SpecClean == InitClean /\ [][NextClean]_vars

NextLaidOut == FromRead

SpecLaidOut == InitLaidOut /\ [][NextLaidOut]_vars

NextEntry == FileMetaDataFromRead

SpecEntry == InitEntry /\ [][NextEntry]_vars

NextVaried == FromRead \/ ToWrite

SpecVaried == InitVaried /\ [][NextVaried]_vars

NextSink == FileMetaDataToWrite

SpecSink == InitSink /\ [][NextSink]_vars

NextTool == HandlePack

SpecTool == InitTool /\ [][NextTool]_vars

NextDisplay == DisplayTags \/ CleanTags

SpecDisplay == InitClean /\ [][NextDisplay]_vars

\* ------------------------------------------------------------- claims
\* C1: round trip.  For every valid pack p (the keys of object_files are
\* object paths, those of other_files are paths kept as other files; any
\* meta.id, any tag index), from_read of the bytes p.to_write produced
\* succeeds and yields a pack equal to p in godot_version, meta, tags,
\* object_files and other_files.
C1_RoundTrip ==
    (/\ last = "from_read"
     /\ before.some
     /\ \A k \in DOMAIN before.val.object_files : classify(k) = "object"
     /\ \A k \in DOMAIN before.val.other_files : classify(k) = "other")
    => /\ outcome = "ok"
       /\ pack = before

\* C2: after clean_tags every file path in a value of tags.tags is a key of
\* object_files, every tag name in a value of tags.sets is a key of
\* tags.tags, and no key of tags.tags or tags.sets maps to the empty set.
C2_CleanInvariant ==
    last = "clean_tags" =>
        /\ \A t \in DOMAIN pack.val.tags.tags :
              /\ pack.val.tags.tags[t] \subseteq DOMAIN pack.val.object_files
              /\ pack.val.tags.tags[t] # {}
        /\ \A s \in DOMAIN pack.val.tags.sets :
              /\ pack.val.tags.sets[s] \subseteq DOMAIN pack.val.tags.tags
              /\ pack.val.tags.sets[s] # {}

\* A clean_tags call that had a missing file, an empty tag and a set naming
\* a missing tag to remove, and left a tag and a set behind.
C2_Witness ==
    /\ last = "clean_tags"
    /\ \E t \in DOMAIN before.val.tags.tags :
          ~(before.val.tags.tags[t] \subseteq DOMAIN before.val.object_files)
    /\ \E t \in DOMAIN before.val.tags.tags : before.val.tags.tags[t] = {}
    /\ \E s \in DOMAIN before.val.tags.sets :
          ~(before.val.tags.sets[s] \subseteq DOMAIN pack.val.tags.tags)
    /\ DOMAIN pack.val.tags.tags # {}
    /\ DOMAIN pack.val.tags.sets # {}

\* C3: clean_tags computes exactly the reference result: the new tags map
\* every tag to its files that are keys of object_files, for the tags where
\* that intersection is not empty; the new sets map every set to its tags
\* that are keys of the new tags, for the sets where that intersection is
\* not empty.  Nothing else is removed and nothing is added.
C3_CleanReference ==
    last = "clean_tags" =>
        LET old == before.val.tags
            files == DOMAIN before.val.object_files
            tagsRef == [t \in {t \in DOMAIN old.tags : old.tags[t] \cap files # {}}
                          |-> old.tags[t] \cap files]
            setsRef == [s \in {s \in DOMAIN old.sets :
                                  old.sets[s] \cap DOMAIN tagsRef # {}}
                          |-> old.sets[s] \cap DOMAIN tagsRef]
        IN  /\ pack.val.tags.tags = tagsRef
            /\ pack.val.tags.sets = setsRef

\* The scenario of test_clean_tags, cleaned.
C3_Witness ==
    /\ last = "clean_tags"
    /\ before.val.tags.tags = (RocksTag :> {RockFile, GhostFile} @@ EmptyTag :> {})
    /\ before.val.tags.sets = (EmptySet :> {} @@ LosesOneSet :> {RocksTag, EmptyTag})
    /\ DOMAIN before.val.object_files = {RockFile}
    /\ pack.val.tags.tags = (RocksTag :> {RockFile})
    /\ pack.val.tags.sets = (LosesOneSet :> {RocksTag})

\* C4: idempotence.  A second clean_tags in succession leaves tags.tags and
\* tags.sets as the first one left them.
C4_CleanIdempotent ==
    (last = "clean_tags" /\ cleans >= 2) => pack.val.tags = before.val.tags

\* A second clean_tags in a row, after a first one that removed a tag and a
\* set and kept a tag and a set.
C4_Witness ==
    /\ last = "clean_tags"
    /\ cleans = 2
    /\ DOMAIN pack.val.tags.tags # {}
    /\ DOMAIN pack.val.tags.sets # {}
    /\ DOMAIN given.pack.tags.tags # DOMAIN pack.val.tags.tags
    /\ DOMAIN given.pack.tags.sets # DOMAIN pack.val.tags.sets

\* C5: phase ordering.  The sets are cleaned against the tags map as file
\* pruning and empty-tag removal left it: a tag that became empty only
\* because its files were pruned is in no set afterwards, and a set that
\* named only such tags is removed.
C5_SetsSeeCleanedTags ==
    last = "clean_tags" =>
        LET old == before.val.tags
            pruned == {t \in DOMAIN old.tags :
                          /\ old.tags[t] # {}
                          /\ old.tags[t] \cap DOMAIN before.val.object_files = {}}
        IN  /\ \A s \in DOMAIN pack.val.tags.sets :
                  pack.val.tags.sets[s] \cap pruned = {}
            /\ \A s \in DOMAIN old.sets :
                  (old.sets[s] # {} /\ old.sets[s] \subseteq pruned)
                      => s \notin DOMAIN pack.val.tags.sets

\* A clean_tags call that pruned every file of a tag, with one set that
\* named only that tag and another that named it beside a tag that stays.
C5_Witness ==
    /\ last = "clean_tags"
    /\ cleans = 1
    /\ \E t \in DOMAIN before.val.tags.tags :
          /\ before.val.tags.tags[t] # {}
          /\ before.val.tags.tags[t] \cap DOMAIN before.val.object_files = {}
          /\ \E s \in DOMAIN before.val.tags.sets :
                /\ before.val.tags.sets[s] = {t}
                /\ s \notin DOMAIN pack.val.tags.sets
          /\ \E s \in DOMAIN before.val.tags.sets :
                /\ t \in before.val.tags.sets[s]
                /\ s \in DOMAIN pack.val.tags.sets

\* C6: clean_tags leaves object_files, other_files, meta and godot_version
\* as they were; only tags.tags and tags.sets may differ after the call.
C6_CleanFrame ==
    last = "clean_tags" =>
        /\ pack.val.object_files = before.val.object_files
        /\ pack.val.other_files = before.val.other_files
        /\ pack.val.meta = before.val.meta
        /\ pack.val.godot_version = before.val.godot_version

\* A clean_tags call that changed the tag index of a pack that holds an
\* object file no tag names and another file.
C6_Witness ==
    /\ last = "clean_tags"
    /\ pack.val.tags # before.val.tags
    /\ \E f \in DOMAIN pack.val.object_files :
          \A t \in DOMAIN before.val.tags.tags : f \notin before.val.tags.tags[t]
    /\ DOMAIN pack.val.other_files # {}

\* C7: path normalization.  For any pack id, a directory entry stored under
\* res://packs/<id>/a/b.png is decoded by FileMetaData::from_read to the path
\* a/b.png, with offset, size and the 16 checksum bytes as encoded.
C7_PathNormalization ==
    (/\ last = "entry_from_read"
     /\ \E id \in EntryIds : given.entry.path = Stored(id, NestedPng))
    => /\ entry.some
       /\ entry.val.path = NestedPng
       /\ entry.val.offset = LE64(given.entry.offset)
       /\ entry.val.size = given.entry.size
       /\ entry.val.md5 = given.entry.md5

\* C8 as stated: every directory entry whose normalized path begins with
\* textures/objects/ is a key of object_files in the pack from_read returns,
\* whatever the rest of the path is.
C8_ObjectPrefixAlways ==
    (last = "from_read" /\ outcome = "ok") =>
        LET dir == directory(stream) IN
        \A i \in 1..Len(dir) :
            is_objects_file(dir[i].path)
                => dir[i].path \in DOMAIN pack.val.object_files

\* C8: every directory entry whose normalized path begins with
\* textures/objects/ and does not end with data/default.dungeondraft_tags is
\* a key of object_files in the pack from_read returns.
C8_ObjectPrefixUnlessTagIndex ==
    (last = "from_read" /\ outcome = "ok") =>
        LET dir == directory(stream) IN
        \A i \in 1..Len(dir) :
            (is_objects_file(dir[i].path) /\ ~is_tags_file(dir[i].path))
                => dir[i].path \in DOMAIN pack.val.object_files

\* An archive read with a pack.json below the object directory, which is
\* kept as an object file, and a tag index below it, which is not.
C8_Witness ==
    /\ last = "from_read"
    /\ outcome = "ok"
    /\ \E i \in 1..Len(given.entries) : given.entries[i] = ObjectTagsEntry
    /\ Obj(PACK_FILE_NAME) \in DOMAIN pack.val.object_files
    /\ Obj(TAGS_FILE_NAME) \notin DOMAIN pack.val.object_files

\* C9: in every pack from_read returns the keys of object_files and those of
\* other_files are disjoint, and neither map has the path of the root
\* metadata document, of its duplicate in the namespace (pack.json) or of the
\* tag index document as a key.
C9_VirtualPathsAreNoKeys ==
    (last = "from_read" /\ outcome = "ok") =>
        LET id == IF before.some THEN before.val.meta.id ELSE IdA
            file_path_prefix == RESOURCE_PATH_PREFIX \o ASSET_PACK_PREFIX \o id
            virtual ==
                { normalize_path(file_path_prefix \o <<Dot>> \o JsonExtension),
                  normalize_path(file_path_prefix \o <<Slash>> \o PACK_FILE_NAME),
                  normalize_path(file_path_prefix \o <<Slash>> \o TAGS_FILE_NAME) }
        IN  /\ DOMAIN pack.val.object_files \cap DOMAIN pack.val.other_files = {}
            /\ DOMAIN pack.val.object_files \cap virtual = {}
            /\ DOMAIN pack.val.other_files \cap virtual = {}

\* C10: the metadata is decoded once, from the root metadata document; the
\* bytes of the duplicate (pack.json in the namespace) change neither the
\* meta of the result nor whether from_read succeeds: the read goes as it
\* goes with the duplicate holding a copy of the root document.
C10_DuplicateIgnored ==
    (last = "from_read" /\ given.kind = "archive" /\ writes = 0) =>
        \E ref \in {from_read(RawArchive(given.version,
                        [i \in 1..Len(given.entries) |->
                            IF given.entries[i].path = Stored(IdA, PACK_FILE_NAME)
                            THEN RawEntry(given.entries[i].path, RootDocument.data)
                            ELSE given.entries[i]]))} :
            /\ outcome = ref.st
            /\ outcome = "ok" =>
                  /\ pack.val.meta = ref.pack.meta
                  /\ pack.val.meta = MetaOf(IdA, NameN, None)

\* C11: missing metadata.  When no directory entry of the archive is
\* classified as the pack metadata document, from_read fails by returning an
\* error value to its caller, and no pack is produced.
C11_MissingMetaReturnsError ==
    (/\ last = "from_read"
     /\ given.cut = 0
     /\ \A i \in 1..Len(given.entries) :
           classify(normalize_path(given.entries[i].path)) # "meta")
    => /\ outcome = "err"
       /\ pack = None

\* C12: missing tag index.  An archive with a valid metadata document (every
\* document from_read takes for the metadata decodes) and no tag index entry
\* is read successfully, with tags.tags and tags.sets empty.
C12_MissingTagsGiveEmptyIndex ==
    (/\ last = "from_read"
     /\ given.cut = 0
     /\ given.len = 0
     /\ \A i \in 1..Len(given.entries) :
           classify(normalize_path(given.entries[i].path)) # "tags"
     /\ \E i \in 1..Len(given.entries) :
           classify(normalize_path(given.entries[i].path)) = "meta"
     /\ \A i \in 1..Len(given.entries) :
           classify(normalize_path(given.entries[i].path)) = "meta"
               => /\ valid_utf8(given.entries[i].data)
                  /\ PackMeta_from_str(given.entries[i].data).ok)
    => /\ outcome = "ok"
       /\ pack.some
       /\ DOMAIN pack.val.tags.tags = {}
       /\ DOMAIN pack.val.tags.sets = {}

\* An archive of a metadata document and an object file, read.
C12_Witness ==
    /\ last = "from_read"
    /\ given.entries = <<RootDocument, RockEntry>>
    /\ given.cut = 0
    /\ given.len = 0
    /\ outcome = "ok"
    /\ DOMAIN pack.val.tags.tags = {}
    /\ DOMAIN pack.val.object_files = {RockFile}

\* C13 as stated: when the metadata document or the tag index document fails
\* to decode, from_read returns an error, and on every such path the raw text
\* of the document is in the log before the error is returned.
C13_EveryDecodeFailureIsDumped ==
    (/\ last = "from_read"
     /\ given.cut = 0
     /\ given.len = 0
     /\ \E i \in 1..Len(given.entries) :
           \/ /\ classify(normalize_path(given.entries[i].path)) = "meta"
              /\ ~(/\ valid_utf8(given.entries[i].data)
                   /\ PackMeta_from_str(given.entries[i].data).ok)
           \/ /\ classify(normalize_path(given.entries[i].path)) = "tags"
              /\ ~(/\ valid_utf8(given.entries[i].data)
                   /\ Tags_from_str(given.entries[i].data).ok))
    => /\ outcome = "err"
       /\ \E i \in 1..Len(given.entries), k \in 1..Len(log) :
             log[k] = InfoDump(given.entries[i].data)

\* C13: when the metadata document or the tag index document is UTF-8 text
\* that json5::from_str fails to decode into its type, from_read returns an
\* error and the raw text of the document is in the log; when the document
\* is no UTF-8, from_read returns an error and no document is logged.
C13_ParseFailureIsDumped ==
    (last = "from_read" /\ given.cut = 0 /\ given.len = 0) =>
        \A i \in 1..Len(given.entries) :
            LET kind == classify(normalize_path(given.entries[i].path))
                text == given.entries[i].data
            IN  /\ (/\ kind \in {"meta", "tags"}
                    /\ valid_utf8(text)
                    /\ ~(IF kind = "meta" THEN PackMeta_from_str(text).ok
                         ELSE Tags_from_str(text).ok))
                   => /\ outcome = "err"
                      /\ pack = None
                      /\ \E k \in 1..Len(log) : log[k] = InfoDump(text)
                /\ (kind \in {"meta", "tags"} /\ ~valid_utf8(text))
                   => /\ outcome = "err"
                      /\ pack = None
                      /\ \A k \in 1..Len(log) : log[k].level # "info"

\* A read that failed on a tag index that is no JSON, after the metadata
\* document was decoded, with the text of the tag index logged.
C13_Witness ==
    /\ last = "from_read"
    /\ given.entries = <<RootDocument, TagsEntry(MalformedText)>>
    /\ given.cut = 0
    /\ given.len = 0
    /\ outcome = "err"
    /\ \E k \in 1..Len(log) : log[k] = InfoDump(MalformedText)

\* C14: a magic mismatch is not fatal.  When the first four bytes are not
\* GDPC, from_read logs a warning and then decodes the rest of the stream as
\* it decodes the same stream with the right first four bytes: the same pack
\* or the same error, and the same log after the warning.
C14_MagicMismatchOnlyWarns ==
    (/\ last = "from_read"
     /\ Len(stream) >= Len(ASSET_PACK_MAGIC_FILE_HEADER)
     /\ SubSeq(stream, 1, Len(ASSET_PACK_MAGIC_FILE_HEADER))
            # ASSET_PACK_MAGIC_FILE_HEADER)
    => \E ref \in {from_read(ASSET_PACK_MAGIC_FILE_HEADER
                             \o Drop(stream, Len(ASSET_PACK_MAGIC_FILE_HEADER)))} :
          /\ outcome = ref.st
          /\ log = <<MagicWarning>> \o ref.log
          /\ outcome = "ok" => pack = Some(ref.pack)
          /\ outcome # "ok" => pack = None

\* An archive with all five entries and other first four bytes, read in
\* full with one warning.
C14_Witness ==
    /\ last = "from_read"
    /\ given.magic = BadMagic
    /\ Len(given.entries) = 5
    /\ given.cut = 0
    /\ outcome = "ok"
    /\ log = <<MagicWarning>>
    /\ DOMAIN pack.val.object_files = {RockFile}
    /\ DOMAIN pack.val.tags.tags = {RocksTag}

\* C15: truncation is fatal.  When the stream ends before the header, all the
\* announced directory entries or all the announced payload bytes are read,
\* from_read returns an error, and no pack, filled in part or not.
C15_TruncationIsAnError ==
    (last = "from_read" /\ given.len = 0 /\ given.cut > 0)
    => /\ outcome = "err"
       /\ pack = None

\* A failed read of an archive of five entries that lacks the last byte of
\* its last payload.
C15_Witness ==
    /\ last = "from_read"
    /\ Len(given.entries) = 5
    /\ given.len = 0
    /\ given.cut = 1
    /\ outcome = "err"
    /\ pack = None

\* C16: the written offsets are consistent.  In the output of to_write the
\* offset of the first entry is 88 plus the sum over all entries of 36 plus
\* the byte length of the path, the offset of every later entry is the
\* offset of the entry before it plus that entry's size, and the offset of
\* every entry is the position in the output at which its payload begins:
\* the payloads lie from the end of the directory to the end of the output,
\* and at the offset of a file's entry are the bytes of that file.
C16_WrittenOffsetsConsistent ==
    last = "to_write" =>
        \E d \in {stored_directory(stream)} :
            LET e == d.entries
                prefix == RESOURCE_PATH_PREFIX \o ASSET_PACK_PREFIX
                          \o before.val.meta.id \o <<Slash>>
                table[i \in 0..Len(e)] ==
                    IF i = 0 THEN 88 ELSE table[i - 1] + 36 + Len(e[i].stored)
                payload_at(i) == SubSeq(stream, e[i].offset + 1, e[i].offset + e[i].size)
            IN  /\ Len(e) >= 3
                /\ e[1].offset = table[Len(e)]
                /\ e[1].offset = d.next
                /\ \A i \in 2..Len(e) : e[i].offset = e[i - 1].offset + e[i - 1].size
                /\ e[Len(e)].offset + e[Len(e)].size = Len(stream)
                /\ PackMeta_from_str(payload_at(1)) = [ok |-> TRUE, val |-> before.val.meta]
                /\ payload_at(2) = payload_at(1)
                /\ Tags_from_str(payload_at(3)) = [ok |-> TRUE, val |-> before.val.tags]
                /\ \A i \in 4..Len(e) :
                      LET key == Drop(e[i].stored, Len(prefix)) IN
                      \/ /\ key \in DOMAIN before.val.object_files
                         /\ payload_at(i) = before.val.object_files[key]
                      \/ /\ key \in DOMAIN before.val.other_files
                         /\ payload_at(i) = before.val.other_files[key]

\* A written pack of two object files and another file: six entries, the
\* last payload ending the output.
C16_Witness ==
    /\ last = "to_write"
    /\ DOMAIN before.val.object_files = {RockFile, CrateFile}
    /\ DOMAIN before.val.other_files = {DoorFile}
    /\ \E d \in {stored_directory(stream)} :
          /\ Len(d.entries) = 6
          /\ d.entries[1].offset > 88 + 6 * 36
          /\ d.entries[6].offset + d.entries[6].size = Len(stream)

\* C17: write ordering.  In the output of to_write every directory entry
\* comes before any payload byte, the offsets of the directory entries do
\* not decrease along the directory, and the payloads follow one another in
\* the order of their directory entries: cut by the sizes of the entries in
\* directory order, the bytes after the directory are the metadata document
\* twice, the tag index, and then the bytes of each file in turn.
C17_WriteOrdering ==
    last = "to_write" =>
        \E d \in {stored_directory(stream)} :
            LET e == d.entries
                prefix == RESOURCE_PATH_PREFIX \o ASSET_PACK_PREFIX
                          \o before.val.meta.id \o <<Slash>>
                ends[i \in 0..Len(e)] ==
                    IF i = 0 THEN d.next ELSE ends[i - 1] + e[i].size
                written(i) == SubSeq(stream, ends[i - 1] + 1, ends[i])
                files == before.val.object_files @@ before.val.other_files
            IN  /\ \A i \in 1..Len(e) : d.next <= e[i].offset
                /\ \A i \in 1..Len(e), j \in 1..Len(e) :
                      i < j => e[i].offset <= e[j].offset
                /\ ends[Len(e)] = Len(stream)
                /\ Len(e) >= 3
                /\ PackMeta_from_str(written(1)).ok
                /\ PackMeta_from_str(written(2)).ok
                /\ Tags_from_str(written(3)).ok
                /\ \A i \in 4..Len(e) :
                      written(i) = files[Drop(e[i].stored, Len(prefix))]

\* A written pack of three files, the first of one byte and the second
\* empty: the offsets rise from the fourth entry to the fifth, and the fifth
\* and sixth entries share one offset.
C17_Witness ==
    /\ last = "to_write"
    /\ DOMAIN before.val.object_files = {RockFile, CrateFile}
    /\ DOMAIN before.val.other_files = {DoorFile}
    /\ \E d \in {stored_directory(stream)} :
          /\ Len(d.entries) = 6
          /\ d.entries[4].offset < d.entries[5].offset
          /\ d.entries[5].offset = d.entries[6].offset
          /\ d.next <= d.entries[1].offset
          /\ SubSeq(stream, d.entries[4].offset + 1,
                    d.entries[4].offset + d.entries[4].size)
             # SubSeq(stream, d.entries[6].offset + 1,
                      d.entries[6].offset + d.entries[6].size)

\* C18: to_write synthesizes the virtual entries again.  The directory it
\* writes starts with res://packs/<id>.json, res://packs/<id>/pack.json and
\* res://packs/<id>/data/default.dungeondraft_tags in that order, the
\* payloads of the first two being the same bytes; after them comes one
\* entry res://packs/<id>/<key> for every key of object_files and of
\* other_files and nothing else, and the number-of-files field holds
\* 3 + |object_files| + |other_files|.
C18_VirtualEntriesSynthesized ==
    last = "to_write" =>
        \E d \in {stored_directory(stream)} :
            LET e == d.entries
                root == Str(<<"r","e","s",":","/","/","p","a","c","k","s","/">>)
                        \o before.val.meta.id
                keys == DOMAIN before.val.object_files
                        \cup DOMAIN before.val.other_files
                payload(i) == SubSeq(stream, e[i].offset + 1, e[i].offset + e[i].size)
            IN  /\ I32Of(SubSeq(stream, 85, 88))
                   = 3 + Cardinality(DOMAIN before.val.object_files)
                       + Cardinality(DOMAIN before.val.other_files)
                /\ Len(e) = I32Of(SubSeq(stream, 85, 88))
                /\ e[1].stored = root \o Str(<<".","j","s","o","n">>)
                /\ e[2].stored = root \o Str(<<"/","p","a","c","k",".","j","s","o","n">>)
                /\ e[3].stored
                   = root \o Str(<<"/","d","a","t","a","/","d","e","f","a","u","l","t",
                                   ".","d","u","n","g","e","o","n","d","r","a","f","t",
                                   "_","t","a","g","s">>)
                /\ payload(1) = payload(2)
                /\ \A k \in keys :
                      Cardinality({i \in 4..Len(e) : e[i].stored = root \o <<Slash>> \o k}) = 1
                /\ \A i \in 4..Len(e) :
                      \E k \in keys : e[i].stored = root \o <<Slash>> \o k

\* A written pack of id "a" with two object files and another file: the
\* number-of-files field holds 6 and the second entry is
\* res://packs/a/pack.json.
C18_Witness ==
    /\ last = "to_write"
    /\ before.val.meta.id = IdA
    /\ Cardinality(DOMAIN before.val.object_files) = 2
    /\ Cardinality(DOMAIN before.val.other_files) = 1
    /\ I32Of(SubSeq(stream, 85, 88)) = 6
    /\ \E d \in {stored_directory(stream)} :
          /\ Len(d.entries) = 6
          /\ d.entries[2].stored
             = Str(<<"r","e","s",":","/","/","p","a","c","k","s","/","a",
                     "/","p","a","c","k",".","j","s","o","n">>)

\* C19: on read, the payload of a directory entry is the `size` bytes of the
\* stream that start at the entry's offset.  After from_read of a complete
\* archive whose entries have in-range offsets and sizes that do not
\* overlap, unused bytes between the directory and a payload or between two
\* payloads included, the bytes held for every file of the pack are the
\* bytes of the stream at the offset of the file's entry.
C19_PayloadReadAtOffset ==
    (last = "from_read" /\ given.cut = 0 /\ pack.some) =>
        \E d \in {stored_directory(stream)} :
            \A i \in 1..Len(d.entries) :
                LET e == d.entries[i]
                    bytes == SubSeq(stream, e.offset + 1, e.offset + e.size)
                IN  /\ e.path \in DOMAIN pack.val.object_files
                       => pack.val.object_files[e.path] = bytes
                    /\ e.path \in DOMAIN pack.val.other_files
                       => pack.val.other_files[e.path] = bytes

\* C20: the normalization algorithm.  For every stored path, a prefix that
\* occurs more than once included, the path FileMetaData::from_read returns
\* is the stored path without one leading res:// if there is one, then
\* without one leading packs/ if there is one, then without everything up to
\* and including the first '/'; when no '/' is left after the prefixes the
\* whole remainder is the path.
C20_NormalizationIsStripOnce ==
    (last = "entry_from_read" /\ entry.some) =>
        LET strip_once(s, p) == IF StartsWith(s, p) THEN Drop(s, Len(p)) ELSE s
            remainder ==
                strip_once(strip_once(given.entry.path,
                                      Str(<<"r","e","s",":","/","/">>)),
                           Str(<<"p","a","c","k","s","/">>))
            slash == Find(remainder, Slash, 1)
        IN  entry.val.path = IF slash = 0 THEN remainder ELSE Drop(remainder, slash)

\* C21 as stated: the order of the directory does not matter on read.  For
\* every archive whose payloads lie one after the other behind the
\* directory, from_read of the archive with its directory entries in any
\* order (each entry keeping its path, offset and size) gives what from_read
\* gives when the directory is in the order of the payloads.
C21_DirectoryOrderIrrelevant ==
    (last = "from_read" /\ before = None /\ given.bad = NoField)
    => \E r \in {from_read(VariedArchive(PlainVersion, given.entries,
                                         [i \in 1..Len(given.entries) |-> i],
                                         given.fill, NoField))} :
          /\ outcome = r.st
          /\ r.st = "ok" => pack = Some(r.pack)

\* C21: the order of the directory does not matter on read when no two
\* entries of the same normalized path have the same offset.  For every such
\* archive whose payloads lie one after the other behind the directory,
\* from_read of the archive with its directory entries in any order gives
\* what from_read gives when the directory is in the order of the payloads.
C21_DirectoryOrderIrrelevantWithoutTies ==
    (/\ last = "from_read" /\ before = None
     /\ given.bad = NoField
     /\ \E d \in {stored_directory(stream).entries} :
           \A i, j \in 1..Len(d) :
               (i # j /\ d[i].path = d[j].path) => d[i].offset # d[j].offset)
    => \E r \in {from_read(VariedArchive(PlainVersion, given.entries,
                                         [i \in 1..Len(given.entries) |-> i],
                                         given.fill, NoField))} :
          /\ outcome = r.st
          /\ r.st = "ok" => pack = Some(r.pack)

\* A read of an archive of four entries whose directory is in the reverse
\* order of its payloads: the pack holds the bytes of both files and the
\* tag index.
C21_Witness ==
    /\ last = "from_read" /\ before = None
    /\ given.entries = <<RootDocument, TagsDocument, RockEntry, DoorEntry>>
    /\ given.order = <<4, 3, 2, 1>>
    /\ outcome = "ok"
    /\ pack.val.object_files = (RockFile :> <<1>>)
    /\ pack.val.other_files = (DoorFile :> <<2, 3>>)
    /\ pack.val.tags.tags = (RocksTag :> {RockFile})

\* C22: the 64 reserved bytes of the header are never interpreted.  from_read
\* of an archive whose reserved bytes (bytes 20..83) are not zero gives what
\* from_read gives for the archive that differs from it in these bytes only,
\* holding zeros there: the same pack or the same failure, and the same log.
\* In what to_write writes these 64 bytes are zero.
C22_ReservedNeverInterpreted ==
    /\ (last = "from_read" /\ before = None /\ given.bad = NoField)
       => \E r \in {from_read(SubSeq(stream, 1, 20) \o Zeros(64)
                              \o SubSeq(stream, 85, Len(stream)))} :
             /\ outcome = r.st
             /\ log = r.log
             /\ r.st = "ok" => pack = Some(r.pack)
    /\ last = "to_write" => SubSeq(stream, 21, 84) = Zeros(64)

\* A read that returned a pack from an archive whose reserved bytes are all
\* 255, and the archive to_write made of that pack.
C22_Witness ==
    /\ last = "to_write"
    /\ given.fill = 255
    /\ SubSeq(stream, 21, 84) = Zeros(64)
    /\ before.val.object_files = (RockFile :> <<1>>)

\* C23: to_write is a function of the pack value.  When to_write runs on a
\* pack that equals the pack the previous to_write ran on (the pack read
\* back from what that to_write wrote), it writes the same bytes again.
C23_WriteIsPureFunction ==
    [][(/\ last = "from_read" /\ before.some /\ pack = before
        /\ last' = "to_write")
       => stream' = stream]_vars

\* C24: a length field that is out of range makes from_read fail fast.  When
\* the number of files, the length of a path or the size of an entry held
\* by the stream is negative or larger than what is left of the stream,
\* from_read returns an error to its caller: it does not panic, and no
\* allocation of the size the negative value turns into is tried.
C24_OutOfRangeLengthIsAnError ==
    (last = "from_read" /\ before = None /\ given.bad.field # "none")
    => /\ outcome = "err"
       /\ pack = None

\* C29: entries that normalize to the same path.  The pack from_read returns
\* holds one payload under each key, the payload of an entry of that path
\* whose offset is the greatest among the entries of that path; no path is
\* a key of both maps, and the two maps together have no more keys than the
\* directory has entries.
C29_GreatestOffsetWins ==
    (last = "from_read" /\ before = None /\ outcome = "ok" /\ given.bad = NoField)
    => \E d \in {stored_directory(stream).entries} :
          LET objects == pack.val.object_files
              others == pack.val.other_files
              payload(i) == SubSeq(stream, d[i].offset + 1, d[i].offset + d[i].size)
              kept(files) ==
                  \A k \in DOMAIN files :
                      \E i \in 1..Len(d) :
                          /\ d[i].path = k
                          /\ \A j \in 1..Len(d) :
                                d[j].path = k => d[j].offset <= d[i].offset
                          /\ files[k] = payload(i)
          IN  /\ kept(objects)
              /\ kept(others)
              /\ DOMAIN objects \cap DOMAIN others = {}
              /\ Cardinality(DOMAIN objects) + Cardinality(DOMAIN others) <= Len(d)

\* A read of an archive in which res://packs/a/textures/objects/r and, at a
\* greater offset, res://packs/b/textures/objects/r are stored, the second
\* of them first in the directory: the one key holds the bytes of the second.
C29_Witness ==
    /\ last = "from_read" /\ before = None /\ outcome = "ok"
    /\ given.entries = <<RootDocument, RockEntry, OtherRockEntry>>
    /\ given.order = <<3, 1, 2>>
    /\ pack.val.object_files = (RockFile :> <<9>>)
    /\ pack.val.other_files = <<>>

\* C28: for every FileMetaData and every sink, one that takes fewer bytes
\* than a write call offers included, a FileMetaData::to_write that returns
\* Ok has written calculate_binary_size() bytes, which is 36 plus the byte
\* length of the path.
C28_WrittenSizeIsBinarySize ==
    (last = "entry_to_write" /\ outcome = "ok")
    => /\ Len(stream) = calculate_binary_size(entry.val)
       /\ Len(stream) = 36 + Len(entry.val.path)

\* C25: the tool never overwrites by accident.  Without force_overwrite (-F)
\* no step of the tool creates, truncates or writes a file of the output
\* directory that exists: every file that is there stays, byte for byte.
C25_NoOverwriteWithoutForce ==
    [][~given.overwrite_allowed
       => \A name \in DOMAIN output_dir :
             /\ name \in DOMAIN output_dir'
             /\ output_dir'[name] = output_dir[name]]_vars

\* handle_pack, run without -F, read and cleaned a pack whose output file
\* was there before the tool ran: the file holds what it held.
C25_Witness ==
    /\ last = "handle_pack" /\ outcome = "ok" /\ pack.some
    /\ ~given.overwrite_allowed
    /\ todo = <<>> /\ Len(given.todo) = 2
    /\ given.todo[2].name \in DOMAIN given.output_dir
    /\ output_dir[given.todo[2].name] = OldBytes

\* C26: skip and continue.  When the read of a pack file fails, handle_pack
\* writes no output file for it and returns normally, and the loop goes on
\* with the pack files that are left.
C26_SkipAndContinue ==
    [][(todo # <<>> /\ from_read(Head(todo).bytes).st # "ok")
       => /\ output_dir' = output_dir
          /\ outcome' # "crash"
          /\ todo' = Tail(todo)]_vars

\* C27: read, clean, write.  Every file the tool wrote is an archive whose
\* tag index names only object files the archive holds, has no tag without
\* files and no set without tags, and whose sets name only tags of the index.
C27_WrittenArchivesAreClean ==
    \A name \in DOMAIN output_dir :
        output_dir[name] # OldBytes =>
            \E d \in {stored_directory(output_dir[name]).entries} :
            \E index \in {Tags_from_str(SubSeq(output_dir[name], d[3].offset + 1,
                                               d[3].offset + d[3].size))} :
                /\ index.ok
                /\ \A t \in DOMAIN index.val.tags :
                      /\ index.val.tags[t] # {}
                      /\ \A f \in index.val.tags[t] :
                            /\ is_objects_file(f)
                            /\ \E i \in 4..Len(d) : d[i].path = f
                /\ \A s \in DOMAIN index.val.sets :
                      /\ index.val.sets[s] # {}
                      /\ index.val.sets[s] \subseteq DOMAIN index.val.tags

\* The tool wrote the pack whose tag index named a file the pack lacks, an
\* empty tag and a set of a tag that goes: the tag index written holds the
\* one tag and the one set that stay.
C27_Witness ==
    /\ last = "handle_pack" /\ outcome = "ok"
    /\ before.some /\ before.val.tags = MessyTags
    /\ \E name \in DOMAIN output_dir :
       \E d \in {stored_directory(output_dir[name]).entries} :
          /\ Len(d) = 5
          /\ Tags_from_str(SubSeq(output_dir[name], d[3].offset + 1,
                                  d[3].offset + d[3].size))
             = [ok |-> TRUE,
                val |-> [tags |-> (RocksTag :> {RockFile}),
                         sets |-> (LosesOneSet :> {RocksTag})]]

\* C30: the Display rendering of Tags.  The text is the heading line, an
\* empty line, the heading `Tags:`, one line for every entry of tags.tags
\* with its files, an empty line, the heading `Tag sets:` and one line for
\* every entry of tags.sets with its tag names, the entries and the members
\* in some order.
C30_DisplayShowsSets ==
    last = "display" =>
        LET t == pack.val.tags
            lines(m, keys, rev, open, close) ==
                Concat([i \in 1..Len(keys) |->
                    <<32, 32, 32, 32, 32, 32, 32, 32>> \o keys[i] \o <<58, 32, 91, 32>>
                    \o Concat([j \in 1..Cardinality(m[keys[i]]) |->
                                 open \o IterOrder(m[keys[i]], rev)[j] \o close])
                    \o <<32, 93, 10>>])
        IN  \E tags \in Orders(DOMAIN t.tags), sets \in Orders(DOMAIN t.sets),
               rev \in BOOLEAN :
               log[1].text
               = <<84>> \o Str(<<"a","g">>) \o <<32>> \o Str(<<"a","n","d">>) \o <<32>>
                 \o Str(<<"t","a","g">>) \o <<32>> \o Str(<<"s","e","t","s",":">>)
                 \o <<10, 10, 32, 32, 32, 32, 84>> \o Str(<<"a","g","s",":">>) \o <<10>>
                 \o lines(t.tags, tags, rev, <<39>>, <<39, 44, 32>>)
                 \o <<10, 32, 32, 32, 32, 84>> \o Str(<<"a","g">>) \o <<32>>
                 \o Str(<<"s","e","t","s",":">>) \o <<10>>
                 \o lines(t.sets, sets, rev, <<>>, <<44, 32>>)

====
